---- MODULE Spec2Model ----
(***************************************************************************)
(* Model of the recipe tracker: the Local Document Store (RecipeDB, db.js) *)
(* with its Remote Sync Adapter, and the Extraction Engine (RecipeScraper, *)
(* scraper.js).                                                            *)
(*                                                                         *)
(* Spec        the store of one client against the remote content store    *)
(* ResetSpec   the same, with the reset of the settings panel              *)
(* PairSpec    two clients on one remote document                          *)
(* ModalSpec   the add-recipe modal of the page                            *)
(* ScrapeSpec  one scrape(url) call against the relay chain                *)
(* CallSpec    the synchronous functions, applied to sample arguments      *)
(***************************************************************************)
EXTENDS Integers, Sequences, FiniteSets, TLC

\* ---------------------------------------------------------------- bounds
MaxFetches == 2  \* fetchRecipeFromURL calls suspended at the same time

MaxOps == 2      \* store operations (add, update, saveNote, remove,
                 \* importJSON) called by the application in one run

\* ------------------------------------------------------------ data model
\* A recipe id.  _genId() builds 'r' + Date.now() + 4 random characters;
\* ids that arrive with a record (import, remote document, preset) are
\* arbitrary strings.  NoId is an absent/empty id (falsy in the code).
NoId      == <<>>
IdA       == <<"a", 0, 0>>
IdB       == <<"b", 0, 0>>
IdZ       == <<"z", 0, 0>>

Today     == "today"


Rec(i, n, no, da, lm) ==
    [id |-> i, name |-> n, notes |-> no, dateAdded |-> da, lastModified |-> lm]

\* The value of this._data / of a parsed JSON document:
\*   "null"       JSON null (also the constructor's this._data = null)
\*   "norecipes"  an object without a recipes sequence, e.g. {}
\*   "doc"        a Collection Document { recipes: [...] }
NullDoc   == [t |-> "null",      recipes |-> <<>>]
NoRecDoc  == [t |-> "norecipes", recipes |-> <<>>]
Doc(rs)   == [t |-> "doc",       recipes |-> rs]

\* Text held by localStorage, by the remote file, by an import file:
\*   "none"     no text (slot empty, file missing, null)
\*   "garbage"  text that JSON.parse rejects
\*   "json"     the serialization of a document
NoText    == [k |-> "none",    doc |-> NullDoc]
Garbage   == [k |-> "garbage", doc |-> NullDoc]

Stringify(d) == [k |-> "json", doc |-> d]
ParseOk(x)   == x.k = "json"
Parse(x)     == x.doc
Truthy(x)    == x.k # "none"

\* An array of records at top level (accepted by importJSON only).
ArrDoc(rs) == [t |-> "array",    recipes |-> rs]

\* Sample records that exist outside the client (remote file, seed, imports).
RA        == Rec(IdA, "x", "",  "old", "")
RB        == Rec(IdB, "y", "",  "old", "")
RA2       == Rec(IdA, "y", "n", "old", "")

\* What the localStorage slot / the remote file can hold when the page loads.
InitSnapshots == {NoText, Garbage, Stringify(NullDoc), Stringify(NoRecDoc),
                  Stringify(Doc(<<RB>>))}
InitRemotes   == {NoText, Garbage, Stringify(NullDoc), Stringify(NoRecDoc),
                  Stringify(Doc(<<>>)), Stringify(Doc(<<RA>>))}
\* What fetch('data/seed.json') can deliver (NoText: the fetch fails).
SeedTexts     == {NoText, Garbage, Stringify(NullDoc), Stringify(NoRecDoc),
                  Stringify(Doc(<<>>)), Stringify(Doc(<<RA>>))}
\* Files handed to importJSON.
ImportTexts   == {Garbage, Stringify(NullDoc), Stringify(ArrDoc(<<RA2>>)),
                  Stringify(Doc(<<RB, RA2>>))}
\* Arguments of add(recipe).
AddInputs     == {Rec(NoId, "x", "", "", ""), Rec(NoId, "x", "", "old", ""),
                  Rec(IdA, "y", "", "", "")}
\* Outcomes of Math.random() in _genId, and the milliseconds that Date.now()
\* has advanced since the id generated before.
Rand          == {1, 2}
Elapsed       == {0, 1}
\* Arguments of update(id, updates): the fields present in updates.
Upd(fs, i, n, no) == [fields |-> fs, id |-> i, name |-> n, notes |-> no]
UpdateInputs  == {Upd({"name"}, NoId, "y", ""), Upd({"id"}, IdB, "", "")}
ArgIds        == {IdA, IdZ}

\* ------------------------------------------------------------------ state
VARIABLES
    pc,        \* position of the client: "new" (constructed), "init_remote",
               \* "init_seed" (init() suspended at an await), "idle",
               \* "sync" (add/update/remove suspended at _syncToGitHub)
    data,      \* RecipeDB._data
    snapshot,  \* localStorage[DB_KEY]
    remote,    \* data/recipes.json in the remote content store
    creds,     \* getSettings() has githubToken, githubOwner and githubRepo
    now,       \* Date.now() when _genId() ran last
    ops,       \* store operations called so far
    writes,    \* _ghUpdateFile calls in flight
    result,    \* what the last finished store operation returned
    content,   \* init(): const content (null -> NoText)
    raw,       \* init(): const raw
    json,      \* _loadSeed(): const json (fetch failed -> NoText)
    unsynced   \* history: ids of the records added or updated by this
               \* client whose remote write failed, until the client
               \* removes or renames them (no operation reads it)

dbvars == <<pc, data, snapshot, remote, creds, now, ops, writes, result,
            content, raw, json, unsynced>>

VARIABLES
    spc,       \* position of scrape(url): "idle", "waiting" (await fetch),
               \* "reading" (await proxy.read), "extract", "done", "threw"
    relay,     \* index into _PROXIES of the current attempt
    timer,     \* the attempt's setTimeout(abort, 14000) is pending
    contacted, \* relays a request was sent to, in order
    ended,     \* how each finished attempt ended, in order
    html,      \* scrape(): const html (null -> NoHtml)
    url,       \* scrape(): the argument
    sresult    \* what scrape(url) returned

svars == <<spc, relay, timer, contacted, ended, html, url, sresult>>

VARIABLES
    fn,        \* the function of the program applied last ("none": none yet)
    arg,       \* its arguments
    ret        \* what it returned, as a record

fvars == <<fn, arg, ret>>

VARIABLES
    peer       \* a second client (another session with the same credentials)
               \* and its one add(recipe): pc is "new", "idle", "get", "put"
               \* (suspended in _ghUpdateFile) or "done"

pvars == <<peer>>

VARIABLES
    overlay,       \* the add-recipe modal is open (overlay has class active)
    urlInput,      \* value of #recipe-url-input
    fetches,       \* fetchRecipeFromURL calls suspended at scraper.scrape
    pendingRecipe, \* let pendingRecipe
    form,          \* values of the manual form (man-name, man-source)
    formShown,     \* #manual-form-section is not hidden
    confirmShown,  \* #btn-confirm-add is not hidden
    applied        \* history (no handler reads it): pendingRecipe, and the
                   \* form, were set by a fetch that was no longer the
                   \* latest fetch of the open modal

mvars == <<overlay, urlInput, fetches, pendingRecipe, form, formShown,
           confirmShown, applied>>

vars == <<dbvars, svars, fvars, pvars, mvars>>

\* The add-recipe modal when the page has loaded.
NoRecipe  == [name |-> "", source |-> "", nutrition |-> ""]
EmptyForm == [name |-> "", source |-> ""]
NoneApplied == [pending |-> FALSE, form |-> FALSE]

ModalClosed ==
    /\ overlay = FALSE
    /\ urlInput = ""
    /\ fetches = <<>>
    /\ pendingRecipe = NoRecipe
    /\ form = EmptyForm
    /\ formShown = FALSE
    /\ confirmShown = FALSE
    /\ applied = NoneApplied

\* The second client as constructed.  base is the remote content its init()
\* adopted; same and last are history (no operation reads them): the first
\* client held the same document when this one loaded, and the first
\* client's write had returned success when this one's PUT was accepted.
PeerNew == [pc |-> "new", data |-> NullDoc, base |-> NoText, same |-> FALSE,
            content |-> NoText, sha |-> NoText, status |-> "none",
            last |-> FALSE]

NoResult == [op |-> "none", status |-> "none", id |-> NoId, err |-> ""]
Res(o, s, i, e) == [op |-> o, status |-> s, id |-> i, err |-> e]

\* -------------------------------------------------------------- RecipeDB
getAll(d) == IF d.t = "doc" THEN d.recipes ELSE <<>>

\* Array.prototype.findIndex(r => r.id === id): first match, 0 for -1.
findIndex(rs, id) ==
    IF \E i \in 1..Len(rs) : rs[i].id = id
    THEN CHOOSE i \in 1..Len(rs) :
            /\ rs[i].id = id
            /\ \A j \in 1..(i - 1) : rs[j].id # id
    ELSE 0

NullRec == Rec(NoId, "<null>", "", "", "")

getById(d, id) ==
    LET rs == getAll(d)
        i  == findIndex(rs, id)
    IN  IF i = 0 THEN NullRec ELSE rs[i]

genId(t, r) == <<"r", t, r>>

\* Variant: the merged record keeps the lastModified it had.
SpreadKeepStamp(rec, u) ==
    Rec(IF "id"    \in u.fields THEN u.id    ELSE rec.id,
        IF "name"  \in u.fields THEN u.name  ELSE rec.name,
        IF "notes" \in u.fields THEN u.notes ELSE rec.notes,
        rec.dateAdded,
        rec.lastModified)

\* { ...rec, ...updates, lastModified: today }
Spread(rec, u) ==
    Rec(IF "id"    \in u.fields THEN u.id    ELSE rec.id,
        IF "name"  \in u.fields THEN u.name  ELSE rec.name,
        IF "notes" \in u.fields THEN u.notes ELSE rec.notes,
        rec.dateAdded,
        Today)

\* new Map(existing.map(r => [r.id, r])); incoming.forEach(set); values()
RECURSIVE MapSet(_, _)
MapSet(acc, rs) ==
    IF rs = <<>> THEN acc
    ELSE LET r == Head(rs)
             i == findIndex(acc, r.id)
         IN  MapSet(IF i = 0 THEN Append(acc, r) ELSE [acc EXCEPT ![i] = r],
                    Tail(rs))

\* recipes.filter(r => r.id !== id)
Filter(rs, id) == SelectSeq(rs, LAMBDA r : r.id # id)

RemoveAt(s, i) == SubSeq(s, 1, i - 1) \o SubSeq(s, i + 1, Len(s))

Write(c, aw) == [phase |-> "get", content |-> c, sha |-> NoText, awaited |-> aw]

\* The application calls a store operation: the page has finished init()
\* and no other awaited operation is in progress.
Call ==
    /\ pc = "idle"
    /\ ops < MaxOps
    /\ ops' = ops + 1
    /\ content' = NoText
    /\ raw' = NoText
    /\ json' = NoText
    /\ UNCHANGED <<remote, creds, svars, fvars, pvars, mvars>>

\* _persist(), then the awaited _syncToGitHub() of add/update/remove up to
\* its first await (it throws at once when the credentials are missing).
Changed(op, id) == IF op \in {"add", "update"} THEN {id} ELSE {}

\* Variant: a failed start of the remote write undoes the local mutation.
PersistAndSyncRollback(d, op, id, undone) ==
    /\ IF creds
       THEN /\ data' = d
            /\ snapshot' = Stringify(d)
            /\ writes' = Append(writes, Write(Stringify(d), TRUE))
            /\ pc' = "sync"
            /\ result' = Res(op, "pending", id, "")
            /\ unsynced' = unsynced \ undone
       ELSE /\ data' = data
            /\ snapshot' = snapshot
            /\ writes' = writes
            /\ pc' = "idle"
            /\ result' = Res(op, "syncfail", id, "credentials")
            /\ unsynced' = (unsynced \ undone) \cup Changed(op, id)

\* Variant: the remote write sends the document as it was before the
\* mutation.
PersistAndSyncStale(d, op, id, undone) ==
    /\ data' = d
    /\ snapshot' = Stringify(d)
    /\ IF creds
       THEN /\ writes' = Append(writes, Write(Stringify(data), TRUE))
            /\ pc' = "sync"
            /\ result' = Res(op, "pending", id, "")
            /\ unsynced' = unsynced \ undone
       ELSE /\ writes' = writes
            /\ pc' = "idle"
            /\ result' = Res(op, "syncfail", id, "credentials")
            /\ unsynced' = (unsynced \ undone) \cup Changed(op, id)

PersistAndSync(d, op, id, undone) ==
    /\ data' = d
    /\ snapshot' = Stringify(d)
    /\ IF creds
       THEN /\ writes' = Append(writes, Write(Stringify(d), TRUE))
            /\ pc' = "sync"
            /\ result' = Res(op, "pending", id, "")
            /\ unsynced' = unsynced \ undone
       ELSE /\ writes' = writes
            /\ pc' = "idle"
            /\ result' = Res(op, "syncfail", id, "credentials")
            /\ unsynced' = (unsynced \ undone) \cup Changed(op, id)

\* this._data.recipes is undefined: the operation raises a TypeError.
Throws(op, id) ==
    /\ result' = Res(op, "threw", id, "TypeError")
    /\ UNCHANGED <<pc, data, snapshot, writes, unsynced>>

Add(recipe, rnd, dt) ==
    /\ Call
    /\ LET t  == IF recipe.id = NoId THEN now + dt ELSE now
           r1 == IF recipe.id = NoId
                 THEN [recipe EXCEPT !.id = genId(t, rnd)] ELSE recipe
           r2 == IF r1.dateAdded = ""
                 THEN [r1 EXCEPT !.dateAdded = Today] ELSE r1
       IN  /\ now' = t
           /\ IF data.t # "doc"
              THEN Throws("add", r2.id)
              ELSE PersistAndSync(Doc(Append(data.recipes, r2)), "add", r2.id,
                                  {})

Update(id, u) ==
    /\ Call
    /\ now' = now
    /\ IF data.t # "doc"
       THEN Throws("update", id)
       ELSE LET idx == findIndex(data.recipes, id)
            IN  IF idx = 0
                THEN /\ result' = Res("update", "null", id, "")
                     /\ UNCHANGED <<pc, data, snapshot, writes, unsynced>>
                ELSE LET m == Spread(data.recipes[idx], u)
                     IN  PersistAndSync(
                            Doc([data.recipes EXCEPT ![idx] = m]),
                            "update", m.id,
                            IF m.id # id THEN {id} ELSE {})

\* Variant: saveNote waits for its remote write like update does.
SaveNoteAwaited(id, notes) ==
    /\ Call
    /\ now' = now
    /\ IF data.t # "doc"
       THEN Throws("saveNote", id)
       ELSE LET idx == findIndex(data.recipes, id)
            IN  IF idx = 0
                THEN /\ result' = Res("saveNote", "none", id, "")
                     /\ UNCHANGED <<pc, data, snapshot, writes, unsynced>>
                ELSE PersistAndSync(
                        Doc([data.recipes EXCEPT ![idx].notes = notes,
                                                 ![idx].lastModified = Today]),
                        "saveNote", id, {})

SaveNote(id, notes) ==
    /\ Call
    /\ now' = now
    /\ unsynced' = unsynced
    /\ IF data.t # "doc"
       THEN /\ result' = Res("saveNote", "threw", id, "TypeError")
            /\ UNCHANGED <<pc, data, snapshot, writes>>
       ELSE LET idx == findIndex(data.recipes, id)
            IN  IF idx = 0
                THEN /\ result' = Res("saveNote", "none", id, "")
                     /\ UNCHANGED <<pc, data, snapshot, writes>>
                ELSE /\ data' = Doc([data.recipes EXCEPT
                                        ![idx].notes = notes,
                                        ![idx].lastModified = Today])
                     /\ snapshot' = Stringify(data')
                     /\ writes' = IF creds
                                  THEN Append(writes,
                                              Write(Stringify(data'), FALSE))
                                  ELSE writes
                     /\ result' = Res("saveNote", "none", id, "")
                     /\ pc' = pc

Remove(id) ==
    /\ Call
    /\ now' = now
    /\ IF data.t # "doc"
       THEN Throws("remove", id)
       ELSE PersistAndSync(Doc(Filter(data.recipes, id)), "remove", id, {id})

\* exportJSON(): JSON.stringify(this._data, null, 2)
exportJSON == Stringify(data)

\* Variant: a successful import is not written to the snapshot.
ImportJSONNoPersist(text) ==
    /\ Call
    /\ now' = now
    /\ LET imported == Parse(text)
           incoming == IF imported.t \in {"array", "doc"}
                       THEN imported.recipes ELSE <<>>
           fails    == \/ ~ParseOk(text)
                       \/ imported.t = "null"
                       \/ data.t # "doc"
           merged   == MapSet(MapSet(<<>>, getAll(data)), incoming)
       IN  IF fails
           THEN /\ result' = Res("import", "failure", NoId, "error")
                /\ UNCHANGED <<data, snapshot>>
           ELSE /\ data' = Doc(merged)
                /\ snapshot' = snapshot
                /\ result' = Res("import", "success", NoId, "")
    /\ UNCHANGED <<pc, writes, unsynced>>

ImportJSON(text) ==
    /\ Call
    /\ now' = now
    /\ LET imported == Parse(text)
           incoming == IF imported.t \in {"array", "doc"}
                       THEN imported.recipes ELSE <<>>
           fails    == \/ ~ParseOk(text)
                       \/ imported.t = "null"
                       \/ data.t # "doc"
           merged   == MapSet(MapSet(<<>>, getAll(data)), incoming)
       IN  IF fails
           THEN /\ result' = Res("import", "failure", NoId, "error")
                /\ UNCHANGED <<data, snapshot>>
           ELSE /\ data' = Doc(merged)
                /\ snapshot' = Stringify(data')
                /\ result' = Res("import", "success", NoId, "")
    /\ UNCHANGED <<pc, writes, unsynced>>

\* ------------------------------------------------------ Remote Sync Adapter
\* The version tag (sha) of the remote file is the hash of its content; the
\* model uses the content itself as the tag.

\* _ghUpdateFile, "Get current SHA": ok = the GET answered with success.
GhGetSha(i, ok) ==
    /\ i \in 1..Len(writes)
    /\ writes[i].phase = "get"
    /\ writes' = [writes EXCEPT ![i].phase = "put",
                                ![i].sha = IF ok THEN remote ELSE NoText]
    /\ UNCHANGED <<pc, data, snapshot, remote, creds, now, ops, result,
                   content, raw, json, unsynced, svars, fvars, pvars, mvars>>

\* Variant: the PUT does not wait for the GET of the version tag.
GhPutEarly(i, outcome) ==
    /\ i \in 1..Len(writes)
    /\ writes[i].phase \in {"get", "put"}
    /\ outcome = "ok" => writes[i].sha = remote
    /\ remote' = IF outcome = "ok" THEN writes[i].content ELSE remote
    /\ writes' = RemoveAt(writes, i)
    /\ IF writes[i].awaited
       THEN /\ pc' = "idle"
            /\ result' = IF outcome = "ok"
                         THEN [result EXCEPT !.status = "ok"]
                         ELSE [result EXCEPT !.status = "syncfail",
                                             !.err = outcome]
            /\ unsynced' = IF outcome = "ok" THEN unsynced
                           ELSE unsynced \cup Changed(result.op, result.id)
       ELSE UNCHANGED <<pc, result, unsynced>>
    /\ UNCHANGED <<data, snapshot, creds, now, ops, content, raw, json, svars, fvars, pvars, mvars>>

\* _ghUpdateFile, the PUT and the return to the caller of _syncToGitHub.
\* The store accepts the PUT only when the tag sent is the current one.
GhPut(i, outcome) ==
    /\ i \in 1..Len(writes)
    /\ writes[i].phase = "put"
    /\ outcome = "ok" => writes[i].sha = remote
    /\ remote' = IF outcome = "ok" THEN writes[i].content ELSE remote
    /\ writes' = RemoveAt(writes, i)
    /\ IF writes[i].awaited
       THEN /\ pc' = "idle"
            /\ result' = IF outcome = "ok"
                         THEN [result EXCEPT !.status = "ok"]
                         ELSE [result EXCEPT !.status = "syncfail",
                                             !.err = outcome]
            /\ unsynced' = IF outcome = "ok" THEN unsynced
                           ELSE unsynced \cup Changed(result.op, result.id)
       ELSE UNCHANGED <<pc, result, unsynced>>
    /\ UNCHANGED <<data, snapshot, creds, now, ops, content, raw, json, svars, fvars, pvars, mvars>>

\* ------------------------------------------------------------------ init()
Usable(x) == Truthy(x) /\ ParseOk(x) /\ Parse(x).t # "null"

\* Variant: stage 2 is skipped, the seed is always loaded.
LocalStageSeedOnly ==
    /\ raw' = snapshot
    /\ snapshot' = snapshot
    /\ data' = data
    /\ pc' = "init_seed"
    /\ result' = Res("init", "pending", NoId, "")

\* init() stage 2, and the call of _loadSeed() up to its await.
LocalStage ==
    /\ raw' = snapshot
    /\ snapshot' = snapshot
    /\ IF Usable(snapshot)
       THEN /\ data' = Parse(snapshot)
            /\ pc' = "idle"
            /\ result' = Res("init", "done", NoId, "")
       ELSE /\ data' = IF Truthy(snapshot) /\ ParseOk(snapshot)
                       THEN Parse(snapshot) ELSE data
            /\ pc' = "init_seed"
            /\ result' = Res("init", "pending", NoId, "")

InitBegin ==
    /\ pc = "new"
    /\ json' = NoText
    /\ content' = NoText
    /\ IF creds
       THEN /\ pc' = "init_remote"
            /\ result' = Res("init", "pending", NoId, "")
            /\ raw' = NoText
            /\ UNCHANGED <<data, snapshot>>
       ELSE LocalStage
    /\ UNCHANGED <<remote, creds, now, ops, writes, unsynced, svars, fvars, pvars, mvars>>

\* Variant: the adopted remote document is not written to the snapshot.
InitRemoteDoneNoPersist(resp) ==
    /\ pc = "init_remote"
    /\ LET c == IF resp = "ok" THEN remote ELSE NoText
       IN  /\ content' = c
           /\ IF Usable(c)
              THEN /\ data' = Parse(c)
                   /\ snapshot' = snapshot
                   /\ pc' = "idle"
                   /\ result' = Res("init", "done", NoId, "")
                   /\ raw' = raw
              ELSE LocalStage
    /\ UNCHANGED <<remote, creds, now, ops, writes, json, unsynced, svars, fvars, pvars, mvars>>

\* _ghReadFile answered: resp is "network" (fetch rejects), "status"
\* (non-success) or "ok".
InitRemoteDone(resp) ==
    /\ pc = "init_remote"
    /\ LET c == IF resp = "ok" THEN remote ELSE NoText
       IN  /\ content' = c
           /\ IF Usable(c)
              THEN /\ data' = Parse(c)
                   /\ snapshot' = Stringify(data')
                   /\ pc' = "idle"
                   /\ result' = Res("init", "done", NoId, "")
                   /\ raw' = raw
              ELSE LocalStage
    /\ UNCHANGED <<remote, creds, now, ops, writes, json, unsynced, svars, fvars, pvars, mvars>>

\* json.recipes || []
RecipesOr(d) == IF d.t = "doc" THEN d.recipes ELSE <<>>

InitSeedDone(text) ==
    /\ pc = "init_seed"
    /\ json' = text
    /\ IF ParseOk(text) /\ Parse(text).t # "null"
       THEN /\ data' = Doc(RecipesOr(Parse(text)))
            /\ snapshot' = Stringify(data')
       ELSE /\ data' = Doc(<<>>)
            /\ snapshot' = snapshot
    /\ pc' = "idle"
    /\ result' = Res("init", "done", NoId, "")
    /\ UNCHANGED <<remote, creds, now, ops, writes, content, raw, unsynced,
                   svars, fvars, pvars, mvars>>

\* The page is loaded again: a new RecipeDB (this._data = null); requests
\* already sent stay in flight, nothing awaits them.
Sent(ws) == SelectSeq(ws, LAMBDA w : w.phase = "put")

Reload ==
    /\ pc = "idle"
    /\ ops > 0
    /\ pc' = "new"
    /\ data' = NullDoc
    /\ result' = NoResult
    /\ content' = NoText
    /\ raw' = NoText
    /\ json' = NoText
    /\ writes' = [i \in 1..Len(Sent(writes))
                    |-> [Sent(writes)[i] EXCEPT !.awaited = FALSE]]
    /\ UNCHANGED <<snapshot, remote, creds, now, ops, unsynced, svars, fvars, pvars, mvars>>

\* saveSettings(): the stored override gains or loses the credentials.
SaveSettings ==
    /\ pc = "idle"
    /\ creds' = ~creds
    /\ UNCHANGED <<pc, data, snapshot, remote, now, ops, writes, result,
                   content, raw, json, unsynced, svars, fvars, pvars, mvars>>

\* ------------------------------------------------------------- JS strings
\* A string is a sequence of one-character strings.
Lowers == <<"a","b","c","d","e","f","g","h","i","j","k","l","m",
            "n","o","p","q","r","s","t","u","v","w","x","y","z">>
Uppers == <<"A","B","C","D","E","F","G","H","I","J","K","L","M",
            "N","O","P","Q","R","S","T","U","V","W","X","Y","Z">>
Digits == <<"0","1","2","3","4","5","6","7","8","9">>

InSeq(c, cs)  == \E i \in 1..Len(cs) : cs[i] = c
PosIn(c, cs)  == CHOOSE i \in 1..Len(cs) : cs[i] = c
IsLower(c)    == InSeq(c, Lowers)
IsUpper(c)    == InSeq(c, Uppers)
IsDigit(c)    == InSeq(c, Digits)
IsWordCh(c)   == IsLower(c) \/ IsUpper(c) \/ IsDigit(c) \/ c = "_"
IsSpace(c)    == c \in {" ", "\n", "\t"}
LowerCh(c)    == IF IsUpper(c) THEN Lowers[PosIn(c, Uppers)] ELSE c
UpperCh(c)    == IF IsLower(c) THEN Uppers[PosIn(c, Lowers)] ELSE c

toLowerCase(s) == [i \in 1..Len(s) |-> LowerCh(s[i])]

\* String.prototype.trim()
RECURSIVE TrimLeft(_)
TrimLeft(s) == IF s # <<>> /\ IsSpace(Head(s)) THEN TrimLeft(Tail(s)) ELSE s
RECURSIVE TrimRight(_)
TrimRight(s) ==
    IF s # <<>> /\ IsSpace(s[Len(s)])
    THEN TrimRight(SubSeq(s, 1, Len(s) - 1)) ELSE s
trim(s) == TrimRight(TrimLeft(s))

\* String.prototype.includes(needle)
includes(s, needle) ==
    \E i \in 0..(Len(s) - Len(needle)) :
        SubSeq(s, i + 1, i + Len(needle)) = needle

\* s.replace(/<[^>]+>/g, '')
FirstGt(s) ==
    IF InSeq(">", s)
    THEN CHOOSE i \in 1..Len(s) :
            s[i] = ">" /\ \A j \in 1..(i - 1) : s[j] # ">"
    ELSE 0
RECURSIVE StripTags(_)
StripTags(s) ==
    IF s = <<>> THEN <<>>
    ELSE IF Head(s) = "<" /\ FirstGt(Tail(s)) >= 2
         THEN StripTags(SubSeq(Tail(s), FirstGt(Tail(s)) + 1, Len(Tail(s))))
         ELSE <<Head(s)>> \o StripTags(Tail(s))

\* s.split(',')
RECURSIVE SplitAcc(_, _, _)
SplitAcc(s, cur, sep) ==
    IF s = <<>> THEN <<cur>>
    ELSE IF Head(s) = sep
         THEN <<cur>> \o SplitAcc(Tail(s), <<>>, sep)
         ELSE SplitAcc(Tail(s), Append(cur, Head(s)), sep)
split(s, sep) == SplitAcc(s, <<>>, sep)

\* Array.prototype.join(sep) of strings
RECURSIVE join(_, _)
join(ss, sep) ==
    IF ss = <<>> THEN <<>>
    ELSE IF Len(ss) = 1 THEN ss[1]
         ELSE ss[1] \o sep \o join(Tail(ss), sep)

\* [...new Set(xs)]: first occurrences, in order
RECURSIVE Dedupe(_)
Dedupe(xs) ==
    IF xs = <<>> THEN <<>>
    ELSE LET init == Dedupe(SubSeq(xs, 1, Len(xs) - 1))
             x    == xs[Len(xs)]
         IN  IF InSeq(x, init) THEN init ELSE Append(init, x)

NonEmpty(ss) == SelectSeq(ss, LAMBDA x : x # <<>>)

\* -------------------------------------------------------------- JS values
\* A value found in parsed JSON-LD:
\*   undef (absent property), null, str, num (s: its decimal digits),
\*   arr (a: the elements), wrap {"@value": s}, step {text: s},
\*   section {itemListElement: a}, obj (an object with none of these).
JV(t, s, a)  == [t |-> t, s |-> s, a |-> a]
Undef        == JV("undef", <<>>, <<>>)
JNull        == JV("null", <<>>, <<>>)
JStr(s)      == JV("str", s, <<>>)
JNum(s)      == JV("num", s, <<>>)
JArr(a)      == JV("arr", <<>>, a)
JWrap(s)     == JV("wrap", s, <<>>)
JStep(s)     == JV("step", s, <<>>)
JSection(a)  == JV("section", <<>>, a)

\* !v
Falsy(v) == \/ v.t \in {"undef", "null"}
            \/ v.t = "str" /\ v.s = <<>>
            \/ v.t = "num" /\ v.s = <<"0">>

ObjectObject == <<"[","o","b","j","e","c","t"," ","O","b","j","e","c","t","]">>

\* String(v)
RECURSIVE JsString(_)
JsString(v) ==
    CASE v.t = "str"   -> v.s
      [] v.t = "num"   -> v.s
      [] v.t = "undef" -> <<"u","n","d","e","f","i","n","e","d">>
      [] v.t = "null"  -> <<"n","u","l","l">>
      [] v.t = "arr"   ->
            join([i \in 1..Len(v.a) |->
                    IF v.a[i].t \in {"undef", "null"} THEN <<>>
                    ELSE JsString(v.a[i])], <<",">>)
      [] OTHER         -> ObjectObject

\* _str(v)
str(v) ==
    IF Falsy(v) THEN <<>>
    ELSE IF v.t = "str" THEN trim(StripTags(v.s))
    ELSE IF v.t = "wrap" /\ v.s # <<>> THEN trim(v.s)
    ELSE trim(JsString(v))

\* _toArray(v)
toArray(v) == IF Falsy(v) THEN <<>> ELSE IF v.t = "arr" THEN v.a ELSE <<v>>

\* A computation that can raise: either a value or a TypeError.
Ok(v)     == [threw |-> FALSE, v |-> v]
TypeError == [threw |-> TRUE,  v |-> <<>>]

\* _parseInstructions(inst).  typeof null === 'object', so a null item
\* reaches item.itemListElement.
RECURSIVE parseInstructions(_)
RECURSIVE parseItems(_)
parseItems(items) ==
    IF items = <<>> THEN Ok(<<>>)
    ELSE LET item == Head(items)
             here == CASE item.t = "str" ->
                            Ok(NonEmpty(<<trim(StripTags(item.s))>>))
                       [] item.t = "null" -> TypeError
                       [] item.t = "section" /\ ~Falsy(JArr(item.a)) ->
                            parseInstructions(JArr(item.a))
                       [] item.t = "step" ->
                            Ok(NonEmpty(<<str(JStr(item.s))>>))
                       [] item.t \in {"arr", "obj", "wrap", "section"} ->
                            Ok(<<>>)
                       [] OTHER -> Ok(<<>>)
             rest == parseItems(Tail(items))
         IN  IF here.threw THEN TypeError
             ELSE IF rest.threw THEN TypeError
             ELSE Ok(here.v \o rest.v)
parseInstructions(inst) ==
    IF Falsy(inst) THEN Ok(<<>>) ELSE parseItems(toArray(inst))

\* _parseTags(keywords, category, cuisine).  k.trim() exists on strings only.
parseTags(keywords, category, cuisine) ==
    LET kws  == IF keywords.t = "arr" THEN keywords.a
                ELSE [i \in 1..Len(split(JsString(keywords), ","))
                        |-> JStr(split(JsString(keywords), ",")[i])]
        bad  == ~Falsy(keywords) /\ \E i \in 1..Len(kws) : kws[i].t # "str"
        fromK == IF Falsy(keywords) THEN <<>>
                 ELSE SelectSeq([i \in 1..Len(kws) |->
                                    toLowerCase(trim(kws[i].s))],
                                LAMBDA k : Len(k) < 25 /\ k # <<>>)
        fromC == IF Falsy(category) THEN <<>>
                 ELSE <<toLowerCase(trim(JsString(category)))>>
        fromU == IF Falsy(cuisine) THEN <<>>
                 ELSE <<toLowerCase(trim(JsString(cuisine)))>>
        all  == Dedupe(fromK \o fromC \o fromU)
    IN  IF bad THEN TypeError
        ELSE Ok(SubSeq(all, 1, IF Len(all) < 6 THEN Len(all) ELSE 6))

\* ---------------------------------------------------------- RecipeScraper
\* A node of a JSON-LD block.  obj = FALSE: the node is null or a primitive.
Node(ty, nm, ing, inst, kw) ==
    [obj |-> TRUE, type |-> ty, name |-> nm, recipeIngredient |-> ing,
     recipeInstructions |-> inst, keywords |-> kw]
NotANode == [obj |-> FALSE, type |-> Undef, name |-> Undef,
             recipeIngredient |-> Undef, recipeInstructions |-> Undef,
             keywords |-> Undef]

\* A <script type="application/ld+json"> block: "bad" (JSON.parse or the
\* node loop raises), "array", "graph" ({"@graph": [...]}) or "single".
Block(t, ns) == [t |-> t, nodes |-> ns]

\* A page: its JSON-LD blocks in document order and what the DOM queries of
\* the heuristic stage find (<<>>: no such element).
Page(bs, og, h, ings) == [blocks |-> bs, ogTitle |-> og, h1 |-> h, ingEls |-> ings]
EmptyPage == Page(<<>>, <<>>, <<>>, <<>>)

\* Text returned by a relay: its length and the page it holds.
Payload(n, pg) == [len |-> n, page |-> pg]
NoHtml == Payload(0, EmptyPage)

\* A URL: valid = new URL(url) accepts it; path = pathname.split('/').
Url(v, segs) == [valid |-> v, path |-> segs]

RecipeWord == <<"r","e","c","i","p","e">>

\* _isRecipe(node)
isRecipe(node) ==
    /\ node.obj
    /\ ~Falsy(node.type)
    /\ LET types == IF node.type.t = "arr" THEN node.type.a ELSE <<node.type>>
       IN  \E i \in 1..Len(types) :
              includes(toLowerCase(JsString(types[i])), RecipeWord)

\* _extractJsonLD(html): the recipe nodes of all blocks, in order.
RECURSIVE Matches(_)
Matches(blocks) ==
    IF blocks = <<>> THEN <<>>
    ELSE (IF Head(blocks).t = "bad" THEN <<>>
          ELSE SelectSeq(Head(blocks).nodes, isRecipe))
         \o Matches(Tail(blocks))

extractJsonLD(pg) ==
    LET ms == Matches(pg.blocks)
    IN  IF ms = <<>> THEN NotANode ELSE ms[1]

SRes(ok, nm, ings, steps, tags, src) ==
    [ok |-> ok, name |-> nm, ingredients |-> ings, steps |-> steps,
     tags |-> tags, source |-> src]

\* _normalizeJsonLD(data, sourceUrl)
normalizeJsonLD(d, u) ==
    LET name        == str(d.name)
        ingredients == NonEmpty([i \in 1..Len(toArray(d.recipeIngredient))
                                   |-> str(toArray(d.recipeIngredient)[i])])
        steps       == parseInstructions(d.recipeInstructions)
        tags        == parseTags(d.keywords, Undef, Undef)
    IN  IF steps.threw \/ tags.threw THEN TypeError
        ELSE Ok(SRes(FALSE, name, ingredients, steps.v, tags.v, u))

UnknownRecipe == <<"U","n","k","n","o","w","n"," ","R","e","c","i","p","e">>

\* _heuristicExtract(html, url)
heuristicExtract(pg, u) ==
    LET name == trim(IF pg.ogTitle # <<>> THEN pg.ogTitle
                     ELSE IF pg.h1 # <<>> THEN pg.h1 ELSE UnknownRecipe)
        ingredients == NonEmpty([i \in 1..Len(pg.ingEls) |-> trim(pg.ingEls[i])])
    IN  SRes(FALSE, name, ingredients, <<>>, <<>>, u)

\* slug.replace(/\.[a-z]+$/, '')
StripExt(s) ==
    IF \E i \in 1..(Len(s) - 1) :
          s[i] = "." /\ \A j \in (i + 1)..Len(s) : IsLower(s[j])
    THEN SubSeq(s, 1, (CHOOSE i \in 1..(Len(s) - 1) :
                          s[i] = "." /\ \A j \in (i + 1)..Len(s) : IsLower(s[j]))
                      - 1)
    ELSE s

\* s.replace(/[-_]+/g, ' ')
RECURSIVE Dashes(_)
Dashes(s) ==
    IF s = <<>> THEN <<>>
    ELSE IF Head(s) \in {"-", "_"}
         THEN IF Len(s) > 1 /\ s[2] \in {"-", "_"}
              THEN Dashes(Tail(s)) ELSE <<" ">> \o Dashes(Tail(s))
         ELSE <<Head(s)>> \o Dashes(Tail(s))

\* s.replace(/\b\w/g, c => c.toUpperCase())
TitleCase(s) ==
    [i \in 1..Len(s) |->
        IF IsWordCh(s[i]) /\ (i = 1 \/ ~IsWordCh(s[i - 1]))
        THEN UpperCh(s[i]) ELSE s[i]]

\* _titleFromUrl(url)
titleFromUrl(u) ==
    IF ~u.valid THEN <<>>
    ELSE LET segs == NonEmpty(u.path)
             slug == IF segs = <<>> THEN <<>> ELSE segs[Len(segs)]
         IN  trim(TitleCase(Dashes(StripExt(slug))))

\* scrape(url) after the fetch stage: the value returned, or a TypeError.
scrapeResult(h, u) ==
    LET node == extractJsonLD(h.page)
        norm == normalizeJsonLD(node, u)
        heur == heuristicExtract(h.page, u)
        skel == SRes(FALSE, titleFromUrl(u), <<>>, <<>>, <<>>, u)
    IN  IF h = NoHtml THEN Ok(skel)
        ELSE IF node.obj /\ norm.threw THEN TypeError
        ELSE IF /\ node.obj
                /\ norm.v.name # <<>>
                /\ (norm.v.ingredients # <<>> \/ norm.v.steps # <<>>)
             THEN Ok([norm.v EXCEPT !.ok = TRUE])
        ELSE IF heur.name # <<>> \/ heur.ingredients # <<>>
             THEN Ok([heur EXCEPT !.ok = TRUE])
        ELSE Ok(skel)

\* _PROXIES: how each relay's read() decodes the response.
PROXIES   == <<"json", "text", "text", "text", "text">>
NumRelays == 5
MinLength == 500

\* Variant: the length check accepts a payload of exactly 500 characters.
PlausibleAtLeast(p) == p.len >= MinLength

\* text && typeof text === 'string' && text.length > 500
Plausible(p) == p.len > MinLength

\* Sample inputs of scrape(url).
sSoup  == <<"S","o","u","p">>
sFlour == <<"f","l","o","u","r">>
sEggs  == <<"e","g","g","s">>
sMix   == <<"M","i","x">>
sBake  == <<"<","b",">","B","a","k","e","<","/","b",">"," ">>
sType  == <<"R","e","c","i","p","e">>
sThing == <<"T","h","i","n","g">>

GoodNode ==
    Node(JStr(sType), JStr(sSoup), JArr(<<JStr(sFlour), JStr(sEggs)>>),
         JArr(<<JStep(sMix), JSection(<<JStr(sBake)>>)>>),
         JStr(<<"E","a","s","y",","," ","s","o","u","p">>))
\* keywords is an array holding a number
NumKeywordsNode ==
    Node(JStr(sType), JStr(sSoup), JArr(<<JStr(sFlour)>>), Undef,
         JArr(<<JStr(sEggs), JNum(<<"2">>)>>))
\* recipeInstructions holds a null entry
NullStepNode ==
    Node(JStr(sType), JStr(sSoup), JArr(<<JStr(sFlour)>>),
         JArr(<<JStr(sMix), JNull>>), Undef)
\* harmless odd shapes: a null ingredient, a numeric keywords value
OddNode ==
    Node(JArr(<<JStr(sThing), JStr(sType)>>), JWrap(sSoup),
         JArr(<<JNull, JStr(sFlour)>>), JStr(sMix), JNum(<<"5">>))
NamelessNode ==
    Node(JStr(sType), Undef, JArr(<<JStr(sFlour)>>), Undef, Undef)
OtherNode ==
    Node(JStr(sThing), JStr(sSoup), Undef, Undef, Undef)

Pages == {
    Page(<<Block("single", <<GoodNode>>)>>, <<>>, <<>>, <<>>),
    Page(<<Block("single", <<NumKeywordsNode>>)>>, sSoup, <<>>, <<>>),
    Page(<<Block("array", <<OtherNode, NullStepNode>>)>>, <<>>, sSoup, <<>>),
    Page(<<Block("bad", <<>>), Block("graph", <<NotANode, OddNode>>)>>,
         <<>>, <<>>, <<>>),
    Page(<<Block("single", <<NamelessNode>>)>>, <<" ">>, <<>>, <<sEggs, <<" ">>>>),
    Page(<<Block("array", <<NamelessNode, GoodNode>>)>>, <<>>, <<>>, <<>>),
    Page(<<>>, <<" ">>, <<>>, <<>>),
    Page(<<>>, <<>>, <<>>, <<>>) }

Urls == {
    Url(TRUE, <<<<>>, <<"r">>, <<"b","e","e","f","-","s","t","e","w",".","h","t","m","l">>>>),
    Url(TRUE, <<<<>>>>),
    Url(FALSE, <<>>) }

SomeUrl == CHOOSE u \in Urls : ~u.valid
NoSRes  == [threw |-> FALSE, v |-> SRes(FALSE, <<>>, <<>>, <<>>, <<>>, SomeUrl)]

\* What proxy.read(res) can produce for a relay of the given kind.
ReadOutcomes(kind) ==
    {"readerror", "short", "good"} \cup
    (IF kind = "json" THEN {"nocontent"} ELSE {})
ShortLengths == {0, MinLength}
GoodLengths  == {MinLength + 1}

\* ------------------------------------------------------- _fetchViaProxy(url)
\* The attempt at the current relay ended without a usable payload: the
\* loop goes on to the next relay, or returns null after the last one.
Continue(how) ==
    /\ ended' = Append(ended, how)
    /\ IF relay < NumRelays
       THEN /\ relay' = relay + 1
            /\ contacted' = Append(contacted, relay + 1)
            /\ timer' = TRUE
            /\ spc' = "waiting"
            /\ html' = html
       ELSE /\ spc' = "extract"
            /\ html' = NoHtml
            /\ timer' = FALSE
            /\ UNCHANGED <<relay, contacted>>
    /\ UNCHANGED <<url, sresult, dbvars, fvars, pvars, mvars>>

ScrapeStart(u) ==
    /\ spc = "idle"
    /\ url' = u
    /\ relay' = 1
    /\ contacted' = <<1>>
    /\ timer' = TRUE
    /\ spc' = "waiting"
    /\ UNCHANGED <<ended, html, sresult, dbvars, fvars, pvars, mvars>>

\* await fetch(...) settles: "network" (rejects), "status" (!res.ok), "ok".
\* clearTimeout(timer) runs as soon as the response headers are there.
FetchSettles(outcome) ==
    /\ spc = "waiting"
    /\ IF outcome = "ok"
       THEN /\ timer' = FALSE
            /\ spc' = "reading"
            /\ UNCHANGED <<relay, contacted, ended, html, url, sresult, dbvars, fvars, pvars, mvars>>
       ELSE Continue(outcome)

\* The 14 s timer fires and aborts the pending fetch.
Timeout ==
    /\ spc = "waiting"
    /\ timer
    /\ Continue("timeout")

\* await proxy.read(res) settles.
ReadSettles(how, n, pg) ==
    /\ spc = "reading"
    /\ how \in ReadOutcomes(PROXIES[relay])
    /\ how = "good"  => n \in GoodLengths
    /\ how = "short" => n \in ShortLengths /\ pg = EmptyPage
    /\ how \in {"readerror", "nocontent"} => n = 0 /\ pg = EmptyPage
    /\ IF how \in {"good", "short"} /\ Plausible(Payload(n, pg))
       THEN /\ html' = Payload(n, pg)
            /\ ended' = Append(ended, how)
            /\ spc' = "extract"
            /\ UNCHANGED <<relay, contacted, timer, url, sresult, dbvars, fvars, pvars, mvars>>
       ELSE Continue(how)

\* The rest of scrape(url): extraction stages and the return.
Extract ==
    /\ spc = "extract"
    /\ sresult' = scrapeResult(html, url)
    /\ spc' = IF sresult'.threw THEN "threw" ELSE "done"
    /\ UNCHANGED <<relay, timer, contacted, ended, html, url, dbvars, fvars, pvars, mvars>>

\* No function has been applied yet.
NoCall ==
    /\ fn = "none"
    /\ arg = <<>>
    /\ ret = <<>>

ScrapeIdle ==
    /\ spc = "idle"
    /\ relay = 0
    /\ timer = FALSE
    /\ contacted = <<>>
    /\ ended = <<>>
    /\ html = NoHtml
    /\ url = SomeUrl
    /\ sresult = NoSRes

Init ==
    /\ pc = "new"
    /\ data = NullDoc
    /\ snapshot \in InitSnapshots
    /\ remote \in InitRemotes
    /\ creds \in BOOLEAN
    /\ now = 0
    /\ ops = 0
    /\ writes = <<>>
    /\ result = NoResult
    /\ content = NoText
    /\ raw = NoText
    /\ json = NoText
    /\ unsynced = {}
    /\ ScrapeIdle
    /\ NoCall
    /\ peer = PeerNew
    /\ ModalClosed

Next ==
    \/ InitBegin
    \/ \E resp \in {"network", "status", "ok"} : InitRemoteDone(resp)
    \/ \E text \in SeedTexts : InitSeedDone(text)
    \/ \E recipe \in AddInputs, rnd \in Rand, dt \in Elapsed :
          Add(recipe, rnd, dt)
    \/ \E id \in ArgIds, u \in UpdateInputs : Update(id, u)
    \/ \E id \in ArgIds : SaveNote(id, "n")
    \/ \E id \in ArgIds : Remove(id)
    \/ \E text \in ImportTexts \cup {exportJSON} : ImportJSON(text)
    \/ \E i \in 1..Len(writes), ok \in BOOLEAN : GhGetSha(i, ok)
    \/ \E i \in 1..Len(writes),
          outcome \in {"ok", "status", "network"} : GhPut(i, outcome)
    \/ Reload
    \/ SaveSettings

Spec == Init /\ [][Next]_vars

\* resetData() in the settings panel, once confirmed: the snapshot slot is
\* removed and init() is called again on the same RecipeDB, up to its first
\* await (the remote read with credentials, the seed fetch without).
ResetData ==
    /\ pc = "idle"
    /\ ops < MaxOps
    /\ ops' = ops + 1
    /\ snapshot' = NoText
    /\ raw' = NoText
    /\ json' = NoText
    /\ content' = NoText
    /\ pc' = IF creds THEN "init_remote" ELSE "init_seed"
    /\ result' = Res("reset", "pending", NoId, "")
    /\ UNCHANGED <<data, remote, creds, now, writes, unsynced, svars, fvars, pvars, mvars>>

\* The store with the reset of the settings panel.
ResetNext == Next \/ ResetData

ResetSpec == Init /\ [][ResetNext]_vars

\* ------------------------------------------------------- a second client
\* Another session runs the same RecipeDB against the same remote file.
\* Its init() with credentials, the remote read answered with a usable
\* document: the document is adopted.
PeerInit ==
    /\ peer.pc = "new"
    /\ Usable(remote)
    /\ peer' = [peer EXCEPT !.pc = "idle",
                            !.data = Parse(remote),
                            !.base = remote,
                            !.same = (pc = "idle" /\ ops = 0
                                      /\ data = Parse(remote))]
    /\ UNCHANGED <<dbvars, svars, fvars, mvars>>

\* The recipe the second client adds (id and dateAdded given).
IdP == <<"p", 0, 0>>
RP  == Rec(IdP, "z", "", "old", "")

\* Its add(recipe) up to the first await of _ghUpdateFile: the content to
\* send is serialized from its collection when _syncToGitHub calls.
PeerAdd ==
    /\ peer.pc = "idle"
    /\ peer.data.t = "doc"
    /\ LET d == Doc(Append(peer.data.recipes, RP))
       IN  peer' = [peer EXCEPT !.pc = "get", !.data = d,
                                !.content = Stringify(d)]
    /\ UNCHANGED <<dbvars, svars, fvars, mvars>>

\* Its "Get current SHA".
PeerGetSha(ok) ==
    /\ peer.pc = "get"
    /\ peer' = [peer EXCEPT !.pc = "put",
                            !.sha = IF ok THEN remote ELSE NoText]
    /\ UNCHANGED <<dbvars, svars, fvars, mvars>>

\* recipes of b that a has not (by id), appended to a.
MergeIn(a, b) ==
    a \o SelectSeq(b, LAMBDA r : \A i \in 1..Len(a) : a[i].id # r.id)

\* Variant: the PUT merges the content sent into the remote content.
PeerPutMerged(outcome) ==
    /\ peer.pc = "put"
    /\ outcome = "ok" => peer.sha = remote
    /\ remote' = IF outcome = "ok"
                 THEN Stringify(Doc(MergeIn(RecipesOr(Parse(remote)),
                                            Parse(peer.content).recipes)))
                 ELSE remote
    /\ peer' = [peer EXCEPT !.pc = "done", !.status = outcome,
                            !.last = (outcome = "ok" /\ pc = "idle"
                                      /\ result.status = "ok")]
    /\ UNCHANGED <<pc, data, snapshot, creds, now, ops, writes, result,
                   content, raw, json, unsynced, svars, fvars, mvars>>

\* Its PUT and the return of add(): the store accepts the PUT only with the
\* current tag, and then holds the content sent.
PeerPut(outcome) ==
    /\ peer.pc = "put"
    /\ outcome = "ok" => peer.sha = remote
    /\ remote' = IF outcome = "ok" THEN peer.content ELSE remote
    /\ peer' = [peer EXCEPT !.pc = "done", !.status = outcome,
                            !.last = (outcome = "ok" /\ pc = "idle"
                                      /\ result.status = "ok")]
    /\ UNCHANGED <<pc, data, snapshot, creds, now, ops, writes, result,
                   content, raw, json, unsynced, svars, fvars, mvars>>

\* Two clients with credentials on one remote document that init() can
\* adopt; the first client starts in a session without a snapshot and is
\* loaded once.
PairInit ==
    /\ Init
    /\ creds
    /\ snapshot = NoText
    /\ Usable(remote)

PairNext ==
    \/ InitBegin
    \/ \E resp \in {"network", "status", "ok"} : InitRemoteDone(resp)
    \/ \E text \in SeedTexts : InitSeedDone(text)
    \/ \E recipe \in AddInputs : Add(recipe, 1, 1)
    \/ \E id \in ArgIds, u \in UpdateInputs : Update(id, u)
    \/ \E id \in ArgIds : SaveNote(id, "n")
    \/ \E id \in ArgIds : Remove(id)
    \/ \E i \in 1..Len(writes), ok \in BOOLEAN : GhGetSha(i, ok)
    \/ \E i \in 1..Len(writes),
          outcome \in {"ok", "status", "network"} : GhPut(i, outcome)
    \/ PeerInit
    \/ PeerAdd
    \/ \E ok \in BOOLEAN : PeerGetSha(ok)
    \/ \E outcome \in {"ok", "status", "network"} : PeerPut(outcome)

PairSpec == PairInit /\ [][PairNext]_vars

\* ------------------------------------------------------ add-recipe modal
\* What the user can have in the URL field, and what scrape(url) resolves
\* with: a normalized recipe, or the link-out skeleton (nutrition: {}).
PageUrls == {"u1", "u2"}
Scraped(u, outcome) ==
    [name      |-> IF outcome = "ok" THEN "dish " \o u ELSE "title " \o u,
     source    |-> u,
     nutrition |-> IF outcome = "ok" THEN "facts " \o u ELSE ""]

\* In flight from now on, every suspended fetch is an earlier one.
Outdated(fs) == [i \in 1..Len(fs) |-> [fs[i] EXCEPT !.stale = TRUE]]

\* resetAddForm(): fields cleared, sections and confirm button hidden.
ResetAddForm ==
    /\ urlInput' = ""
    /\ formShown' = FALSE
    /\ confirmShown' = FALSE
    /\ form' = EmptyForm

OpenAddModal ==
    /\ ~overlay
    /\ overlay' = TRUE
    /\ pendingRecipe' = NoRecipe
    /\ ResetAddForm
    /\ fetches' = Outdated(fetches)
    /\ applied' = NoneApplied
    /\ UNCHANGED <<dbvars, svars, fvars, pvars>>

\* Close button, click on the overlay, Escape.
CloseAddModal ==
    /\ overlay' = FALSE
    /\ pendingRecipe' = NoRecipe
    /\ ResetAddForm
    /\ fetches' = Outdated(fetches)
    /\ applied' = NoneApplied
    /\ UNCHANGED <<dbvars, svars, fvars, pvars>>

\* switchAddTab(tab)
SwitchAddTab(tab) ==
    /\ overlay
    /\ formShown' = (tab = "manual")
    /\ confirmShown' = IF tab = "manual" THEN TRUE ELSE confirmShown
    /\ UNCHANGED <<overlay, urlInput, fetches, pendingRecipe, form, applied,
                   dbvars, svars, fvars, pvars>>

\* The user types into the URL field, into the name field of the form.
TypeUrl(u) ==
    /\ overlay
    /\ urlInput' = u
    /\ UNCHANGED <<overlay, fetches, pendingRecipe, form, formShown,
                   confirmShown, applied, dbvars, svars, fvars, pvars>>

TypeName ==
    /\ overlay
    /\ formShown
    /\ form' = [form EXCEPT !.name = "mine"]
    /\ UNCHANGED <<overlay, urlInput, fetches, pendingRecipe, formShown,
                   confirmShown, applied, dbvars, svars, fvars, pvars>>

\* fetchRecipeFromURL() up to await scraper.scrape(url): Enter in the URL
\* field, or the fetch button (disabled while a fetch is suspended).
FetchRecipeFromURL ==
    /\ overlay
    /\ urlInput # ""
    /\ Len(fetches) < MaxFetches
    /\ confirmShown' = FALSE
    /\ pendingRecipe' = NoRecipe
    /\ fetches' = Append(Outdated(fetches), [url |-> urlInput, stale |-> FALSE])
    /\ applied' = [applied EXCEPT !.pending = FALSE]
    /\ UNCHANGED <<overlay, urlInput, form, formShown, dbvars, svars, fvars,
                   pvars>>

\* scraper.scrape(url) settles and fetchRecipeFromURL() runs to its end:
\* outcome is "ok", "skeleton" (resolved) or "threw" (rejected).
FetchReturned(i, outcome) ==
    /\ i \in 1..Len(fetches)
    /\ fetches' = RemoveAt(fetches, i)
    /\ formShown' = TRUE
    /\ confirmShown' = TRUE
    /\ IF outcome = "threw"
       THEN /\ pendingRecipe' = pendingRecipe
            /\ form' = [name |-> "guess " \o fetches[i].url,
                        source |-> fetches[i].url]
            /\ applied' = [applied EXCEPT
                             !.form = fetches[i].stale]
       ELSE /\ pendingRecipe' = Scraped(fetches[i].url, outcome)
            /\ form' = [name |-> pendingRecipe'.name,
                        source |-> pendingRecipe'.source]
            /\ applied' = [pending |-> fetches[i].stale,
                           form |-> fetches[i].stale]
    /\ UNCHANGED <<overlay, urlInput, dbvars, svars, fvars, pvars>>

ModalNext ==
    \/ OpenAddModal
    \/ CloseAddModal
    \/ \E tab \in {"url", "manual"} : SwitchAddTab(tab)
    \/ \E u \in PageUrls : TypeUrl(u)
    \/ TypeName
    \/ FetchRecipeFromURL
    \/ \E i \in 1..Len(fetches), outcome \in {"ok", "skeleton", "threw"} :
          FetchReturned(i, outcome)

\* One scrape(url) call; the store is left as constructed.
ScrapeInit ==
    /\ pc = "new"
    /\ data = NullDoc
    /\ snapshot = NoText
    /\ remote = NoText
    /\ creds = FALSE
    /\ now = 0
    /\ ops = 0
    /\ writes = <<>>
    /\ result = NoResult
    /\ content = NoText
    /\ raw = NoText
    /\ json = NoText
    /\ unsynced = {}
    /\ ScrapeIdle
    /\ NoCall
    /\ peer = PeerNew
    /\ ModalClosed

ScrapeNext ==
    \/ \E u \in Urls : ScrapeStart(u)
    \/ \E outcome \in {"network", "status", "ok"} : FetchSettles(outcome)
    \/ Timeout
    \/ \E how \in {"readerror", "nocontent", "short", "good"},
          n \in {0} \cup ShortLengths \cup GoodLengths,
          pg \in Pages \cup {EmptyPage} : ReadSettles(how, n, pg)
    \/ Extract

ScrapeSpec == ScrapeInit /\ [][ScrapeNext]_vars

\* The add-recipe modal; store and scraper are left as constructed.
ModalSpec == ScrapeInit /\ [][ModalNext]_vars

\* ------------------------------------------------- synchronous functions
\* --- renderRecipePage: isLinkOut
LinkRecipe(ing, st, src) == [ingredients |-> ing, steps |-> st, source |-> src]

\* !x || x.length === 0
NoneOrEmpty(x) ==
    \/ Falsy(x)
    \/ x.t = "arr" /\ Len(x.a) = 0

\* Variant: the steps are not looked at.
isLinkOutIgnoringSteps(recipe) ==
    /\ NoneOrEmpty(recipe.ingredients)
    /\ ~Falsy(recipe.source)

\* isLinkOut as the following if (isLinkOut) sees it.
isLinkOut(recipe) ==
    /\ NoneOrEmpty(recipe.ingredients)
    /\ NoneOrEmpty(recipe.steps)
    /\ ~Falsy(recipe.source)

sHttp == <<"h","t","t","p",":","/","/","x">>
LinkLists   == {Undef, JNull, JArr(<<>>), JArr(<<JStr(sFlour)>>),
                JArr(<<JStr(sMix), JStr(sFlour)>>)}
LinkSources == {Undef, JNull, JStr(<<>>), JStr(sHttp)}

IsLinkOut(recipe) ==
    /\ fn = "none"
    /\ fn' = "isLinkOut"
    /\ arg' = recipe
    /\ ret' = [linkOut |-> isLinkOut(recipe)]
    /\ UNCHANGED <<dbvars, svars, pvars, mvars>>

\* --- getSettings()
SettingsFields == {"githubToken", "githubOwner", "githubRepo", "githubBranch"}
sMain == <<"m","a","i","n">>
DEFAULT_SETTINGS ==
    [githubToken |-> JStr(<<>>), githubOwner |-> JStr(<<>>),
     githubRepo |-> JStr(<<>>), githubBranch |-> JStr(sMain)]

\* A settings object; Undef: the object does not have the field.
SettingsObj(token, owner, repo, branch) ==
    [githubToken |-> token, githubOwner |-> owner, githubRepo |-> repo,
     githubBranch |-> branch]
NoFields == SettingsObj(Undef, Undef, Undef, Undef)

\* { ...base, ...over }
SpreadOver(base, over) ==
    [f \in SettingsFields |-> IF over[f] = Undef THEN base[f] ELSE over[f]]

\* localStorage[SETTINGS_KEY]: k is "none" (no slot), "garbage" (JSON.parse
\* raises), "null" (the text null) or "obj" (an object, o).
Slot(k, o) == [k |-> k, o |-> o]

\* SITE_CONFIG: defined = FALSE when js/config.js is not loaded.
Site(defined, o) == [defined |-> defined, o |-> o]

\* Variant: every stored field wins, an empty one too.
getSettingsStoredWins(slot, site) ==
    LET merged == SpreadOver(DEFAULT_SETTINGS,
                             IF site.defined THEN site.o ELSE NoFields)
    IN  IF slot.k = "obj" THEN SpreadOver(merged, slot.o) ELSE merged

getSettings(slot, site) ==
    LET siteDefaults == IF site.defined THEN site.o ELSE NoFields
        merged       == SpreadOver(DEFAULT_SETTINGS, siteDefaults)
    IN  IF slot.k = "obj"
        THEN [f \in SettingsFields |->
                 IF slot.o[f] # JStr(<<>>) /\ slot.o[f] \notin {JNull, Undef}
                 THEN slot.o[f] ELSE merged[f]]
        ELSE merged

sTok == <<"t","o","k">>
sDev == <<"d","e","v">>
sOwn == <<"o","w","n">>
SettingValues == {Undef, JNull, JStr(<<>>)}
Slots ==
    {Slot("none", NoFields), Slot("garbage", NoFields), Slot("null", NoFields)}
    \cup {Slot("obj", SettingsObj(t, Undef, JStr(sOwn), b)) :
             t \in SettingValues \cup {JStr(sOwn)},
             b \in SettingValues \cup {JStr(sDev)}}
Sites ==
    {Site(FALSE, NoFields)}
    \cup {Site(TRUE, SettingsObj(t, JStr(sOwn), Undef, b)) :
             t \in {Undef, JStr(<<>>), JStr(sTok)},
             b \in {Undef, JStr(<<>>), JStr(sMain)}}

GetSettings(slot, site) ==
    /\ fn = "none"
    /\ fn' = "getSettings"
    /\ arg' = [slot |-> slot, site |-> site]
    /\ ret' = getSettings(slot, site)
    /\ UNCHANGED <<dbvars, svars, pvars, mvars>>

\* --- _parseDuration(iso)
\* String.prototype.indexOf(needle) + 1: the first occurrence, 0 for none.
IndexOf(s, needle) ==
    IF includes(s, needle)
    THEN CHOOSE i \in 1..(Len(s) - Len(needle) + 1) :
            /\ SubSeq(s, i, i + Len(needle) - 1) = needle
            /\ \A j \in 1..(i - 1) : SubSeq(s, j, j + Len(needle) - 1) # needle
    ELSE 0

\* The length of the longest prefix of digits: what \d+ takes.
RECURSIVE DigitsPrefix(_)
DigitsPrefix(s) ==
    IF s # <<>> /\ IsDigit(Head(s)) THEN 1 + DigitsPrefix(Tail(s)) ELSE 0

\* parseInt of a sequence of digits
RECURSIVE ParseInt(_)
ParseInt(ds) ==
    IF ds = <<>> THEN 0
    ELSE 10 * ParseInt(SubSeq(ds, 1, Len(ds) - 1))
         + (PosIn(ds[Len(ds)], Digits) - 1)

\* String(n) of a natural number
RECURSIVE NatStr(_)
NatStr(n) ==
    IF n < 10 THEN <<Digits[n + 1]>>
    ELSE NatStr(n \div 10) \o <<Digits[(n % 10) + 1]>>

\* (?:(\d+)unit)? at the head of s: the digits taken, <<>> when the group
\* does not take part in the match.
Group(s, unit) ==
    LET d == DigitsPrefix(s)
    IN  IF d > 0 /\ Len(s) > d /\ s[d + 1] = unit
        THEN SubSeq(s, 1, d) ELSE <<>>
AfterGroup(s, unit) ==
    IF Group(s, unit) = <<>> THEN s
    ELSE SubSeq(s, Len(Group(s, unit)) + 2, Len(s))

sPT  == <<"P","T">>
sHr  == <<" ","h","r">>
sMin == <<" ","m","i","n">>

\* Variant: a duration without minutes is returned as it came.
parseDurationMinutesOnly(iso) ==
    IF Falsy(iso) THEN <<>>
    ELSE LET t   == JsString(iso)
             p   == IndexOf(t, sPT)
             r1  == SubSeq(t, p + 2, Len(t))
             min == ParseInt(Group(AfterGroup(r1, "H"), "M"))
         IN  IF p = 0 THEN t
             ELSE IF min > 0 THEN NatStr(min) \o sMin
             ELSE t

parseDuration(iso) ==
    IF Falsy(iso) THEN <<>>
    ELSE LET t   == JsString(iso)
             p   == IndexOf(t, sPT)
             r1  == SubSeq(t, p + 2, Len(t))
             h   == ParseInt(Group(r1, "H"))
             min == ParseInt(Group(AfterGroup(r1, "H"), "M"))
         IN  IF p = 0 THEN t
             ELSE IF h > 0 /\ min > 0
                  THEN NatStr(h) \o <<"h", " ">> \o NatStr(min) \o sMin
             ELSE IF h > 0 THEN NatStr(h) \o sHr
             ELSE IF min > 0 THEN NatStr(min) \o sMin
             ELSE t

Durations == {
    Undef, JNull, JNum(<<"0">>), JNum(<<"3","0">>), JStr(<<>>),
    JStr(<<"P","T","1","H","3","0","M">>),
    JStr(<<"P","T","4","5","M">>),
    JStr(<<"P","T","2","H">>),
    JStr(<<"P","T","0","H","3","0","M">>),
    JStr(<<"P","T","1","0","H","0","M">>),
    JStr(<<"P","T","0","M">>),
    JStr(<<"P","T">>),
    JStr(<<"P","T","0","1","H","0","5","M">>),
    JStr(<<"P","0","D","T","4","5","M">>),
    JStr(<<"P","T","1","H","3","0","M","1","5","S">>),
    JStr(<<"a","b","o","u","t"," ","P","T","5","M">>),
    JStr(<<"4","5"," ","m","i","n","u","t","e","s">>),
    JStr(<<"P","T","1",".","5","H">>),
    JStr(<<"P","T","x","P","T","5","M">>),
    JStr(<<"P","1","D","T","2","H">>),
    JStr(<<"p","t","4","5","m">>),
    JStr(<<"P","T","1","2","0","M">>),
    JStr(<<"P","T","4","5">>) }

ParseDuration(iso) ==
    /\ fn = "none"
    /\ fn' = "parseDuration"
    /\ arg' = iso
    /\ ret' = [text |-> parseDuration(iso)]
    /\ UNCHANGED <<dbvars, svars, pvars, mvars>>

\* --- _guessCategory(rawCat, cuisine, name, ingredients)
\* A rule is a category key and the alternatives of its regular expression;
\* in an alternative "." stands for any character but a line terminator.
Rule(cat, alts) == [cat |-> cat, alts |-> alts]
rules == <<
    Rule("soups", <<
        <<"s","o","u","p">>,
        <<"s","t","e","w">>,
        <<"c","h","o","w","d","e","r">>,
        <<"b","r","o","t","h">>,
        <<"b","i","s","q","u","e">>,
        <<"c","h","i","l","i">>>>),
    Rule("pasta", <<
        <<"p","a","s","t","a">>,
        <<"s","p","a","g","h","e","t","t","i">>,
        <<"p","e","n","n","e">>,
        <<"f","e","t","t","u","c","c","i","n","e">>,
        <<"r","i","g","a","t","o","n","i">>,
        <<"l","i","n","g","u","i","n","e">>,
        <<"l","a","s","a","g","n","a">>,
        <<"n","o","o","d","l","e">>,
        <<"m","a","c","a","r","o","n","i">>,
        <<"t","a","g","l","i","a","t","e","l","l","e">>,
        <<"g","n","o","c","c","h","i">>,
        <<"o","r","z","o">>>>),
    Rule("mexican", <<
        <<"t","a","c","o">>,
        <<"f","a","j","i","t","a">>,
        <<"b","u","r","r","i","t","o">>,
        <<"e","n","c","h","i","l","a","d","a">>,
        <<"q","u","e","s","a","d","i","l","l","a">>,
        <<"s","a","l","s","a">>,
        <<"g","u","a","c","a","m","o","l","e">>,
        <<"m","e","x","i","c","a","n">>,
        <<"t","e","x",".","m","e","x">>,
        <<"c","h","i","m","i","c","h","a","n","g","a">>>>),
    Rule("asian", <<
        <<"s","t","i","r",".","f","r","y">>,
        <<"f","r","i","e","d"," ","r","i","c","e">>,
        <<"r","a","m","e","n">>,
        <<"p","h","o">>,
        <<"p","a","d"," ","t","h","a","i">>,
        <<"s","u","s","h","i">>,
        <<"t","e","r","i","y","a","k","i">>,
        <<"k","o","r","e","a","n">>,
        <<"c","h","i","n","e","s","e">>,
        <<"j","a","p","a","n","e","s","e">>,
        <<"t","h","a","i">>,
        <<"v","i","e","t","n","a","m","e","s","e">>,
        <<"a","s","i","a","n">>,
        <<"w","o","k">>>>),
    Rule("seafood", <<
        <<"s","a","l","m","o","n">>,
        <<"s","h","r","i","m","p">>,
        <<"f","i","s","h">>,
        <<"t","u","n","a">>,
        <<"c","o","d">>,
        <<"h","a","l","i","b","u","t">>,
        <<"t","i","l","a","p","i","a">>,
        <<"l","o","b","s","t","e","r">>,
        <<"c","r","a","b">>,
        <<"s","c","a","l","l","o","p">>,
        <<"s","e","a","f","o","o","d">>,
        <<"p","r","a","w","n">>,
        <<"c","l","a","m">>,
        <<"m","u","s","s","e","l">>>>),
    Rule("salads", <<
        <<"s","a","l","a","d">>,
        <<"b","o","w","l">>,
        <<"g","r","a","i","n"," ","b","o","w","l">>,
        <<"b","u","d","d","h","a"," ","b","o","w","l">>>>),
    Rule("breakfast", <<
        <<"b","r","e","a","k","f","a","s","t">>,
        <<"b","r","u","n","c","h">>,
        <<"e","g","g">>,
        <<"o","m","e","l","e","t","t","e">>,
        <<"p","a","n","c","a","k","e">>,
        <<"w","a","f","f","l","e">>,
        <<"f","r","e","n","c","h"," ","t","o","a","s","t">>,
        <<"s","h","a","k","s","h","u","k","a">>,
        <<"f","r","i","t","t","a","t","a">>,
        <<"q","u","i","c","h","e">>>>),
    Rule("desserts", <<
        <<"c","a","k","e">>,
        <<"c","o","o","k","i","e">>,
        <<"b","r","o","w","n","i","e">>,
        <<"p","i","e">>,
        <<"t","a","r","t">>,
        <<"d","e","s","s","e","r","t">>,
        <<"s","w","e","e","t">>,
        <<"c","h","o","c","o","l","a","t","e">>,
        <<"i","c","e"," ","c","r","e","a","m">>,
        <<"p","u","d","d","i","n","g">>,
        <<"m","u","f","f","i","n">>,
        <<"c","u","p","c","a","k","e">>>>),
    Rule("pizza", <<
        <<"p","i","z","z","a">>,
        <<"f","l","a","t","b","r","e","a","d">>,
        <<"f","o","c","a","c","c","i","a">>,
        <<"c","a","l","z","o","n","e">>>>),
    Rule("casseroles", <<
        <<"c","a","s","s","e","r","o","l","e">>,
        <<"b","a","k","e">>,
        <<"g","r","a","t","i","n">>,
        <<"l","a","s","a","g","n","a">>,
        <<"p","o","t"," ","p","i","e">>>>),
    Rule("meat", <<
        <<"c","h","i","c","k","e","n">>,
        <<"b","e","e","f">>,
        <<"p","o","r","k">>,
        <<"l","a","m","b">>,
        <<"t","u","r","k","e","y">>,
        <<"s","t","e","a","k">>,
        <<"r","o","a","s","t">>,
        <<"m","e","a","t","b","a","l","l">>,
        <<"m","e","a","t","l","o","a","f">>,
        <<"w","i","n","g">>,
        <<"r","i","b">>,
        <<"c","u","t","l","e","t">>,
        <<"t","e","n","d","e","r","l","o","i","n">>>>),
    Rule("vegetables", <<
        <<"v","e","g","e","t","a","b","l","e">>,
        <<"v","e","g","g","i","e">>,
        <<"v","e","g","a","n">>,
        <<"s","i","d","e"," ","d","i","s","h">>,
        <<"r","o","a","s","t","e","d"," ","v","e","g">>,
        <<"c","a","u","l","i","f","l","o","w","e","r">>,
        <<"b","r","o","c","c","o","l","i">>,
        <<"a","s","p","a","r","a","g","u","s">>,
        <<"g","r","e","e","n"," ","b","e","a","n">>>>) >>

\* The alternative alt matches s at position i.
MatchAt(s, i, alt) ==
    /\ i + Len(alt) - 1 <= Len(s)
    /\ \A k \in 1..Len(alt) :
          IF alt[k] = "." THEN s[i + k - 1] # "\n"
          ELSE s[i + k - 1] = alt[k]

\* re.test(text): some alternative matches somewhere in the text.
test(rule, text) ==
    \E a \in 1..Len(rule.alts), i \in 1..Len(text) :
        MatchAt(text, i, rule.alts[a])

\* `${rawCat} ${cuisine} ${name} ${ingredients.join(' ')}`
CategoryText(rawCat, cuisine, name, ingredients) ==
    rawCat \o <<" ">> \o cuisine \o <<" ">> \o name \o <<" ">>
        \o join(ingredients, <<" ">>)

\* The first rule, in order, whose expression matches; 0 for none.
FirstRule(text) ==
    IF \E r \in 1..Len(rules) : test(rules[r], text)
    THEN CHOOSE r \in 1..Len(rules) :
            /\ test(rules[r], text)
            /\ \A q \in 1..(r - 1) : ~test(rules[q], text)
    ELSE 0

\* Variant: the text is matched as it was written, not in lower case.
guessCategoryAsWritten(rawCat, cuisine, name, ingredients) ==
    LET text == CategoryText(rawCat, cuisine, name, ingredients)
    IN  IF FirstRule(text) = 0 THEN "meat" ELSE rules[FirstRule(text)].cat

guessCategory(rawCat, cuisine, name, ingredients) ==
    LET text == toLowerCase(CategoryText(rawCat, cuisine, name, ingredients))
    IN  IF FirstRule(text) = 0 THEN "meat" ELSE rules[FirstRule(text)].cat

RawCats == { <<>>, <<"D","i","n","n","e","r">>, <<"S","o","u","p">> }
Cuisines == { <<>>, <<"T","e","x","-","M","e","x">>, <<"I","t","a","l","i","a","n">> }
Names == { <<>>, <<"C","h","i","c","k","e","n">>, <<"F","i","s","h"," ","T","a","c","o","s">>, <<"T","a","c","o"," ","S","o","u","p">>, <<"P","l","a","i","n"," ","R","i","c","e">>, <<"T","a","c","o"," ","P","a","s","t","a">>, <<"O","a","t","m","e","a","l">> }
IngredientLists == {
    <<>>,
    <<<<"c","h","i","c","k","e","n">>>>,
    <<<<"r","i","c","e">>, <<"t","a","c","o"," ","s","h","e","l","l","s">>>>,
    <<<<"T","o","f","u">>, <<"B","r","o","c","c","o","l","i">>>>,
    <<<<"w","a","t","e","r">>>> }

GuessCategory(rawCat, cuisine, name, ingredients) ==
    /\ fn = "none"
    /\ fn' = "guessCategory"
    /\ arg' = [rawCat |-> rawCat, cuisine |-> cuisine, name |-> name,
               ingredients |-> ingredients]
    /\ ret' = [category |-> guessCategory(rawCat, cuisine, name, ingredients)]
    /\ UNCHANGED <<dbvars, svars, pvars, mvars>>


\* --- _normalizeJsonLD(data, sourceUrl), applied to one node
sSpace == <<" ">>
sBoldFlour == <<"<","b",">","f","l","o","u","r","<","/","b",">">>
\* values of recipeIngredient
IngredientValues == {
    Undef,
    JStr(sFlour),
    JArr(<<JStr(sFlour), JStr(sEggs)>>),
    JArr(<<JStr(sEggs), JStr(sFlour)>>),
    JArr(<<JStr(sFlour), JStr(sSpace), JStr(sFlour)>>),
    JArr(<<JWrap(sEggs), JNum(<<"2">>), JStr(sBoldFlour)>>),
    JArr(<<JStr(<<>>), JNull>>),
    JArr(<<JStr(sEggs), JNull, JStr(sFlour), JStr(sEggs)>>) }
SampleNodes ==
    {GoodNode, NumKeywordsNode, NullStepNode, OddNode, NamelessNode,
     OtherNode}
    \cup {Node(JStr(sType), JStr(sSoup), ing, inst, Undef) :
            ing \in IngredientValues,
            inst \in {Undef, JArr(<<JStr(sMix), JNull>>)}}

NormalizeJsonLD(node) ==
    /\ fn = "none"
    /\ fn' = "normalizeJsonLD"
    /\ arg' = node
    /\ ret' = normalizeJsonLD(node, SomeUrl)
    /\ UNCHANGED <<dbvars, svars, pvars, mvars>>

\* --- _parseServings(raw)
\* parseInt(s): blanks are skipped, then an optional sign and the digits
\* that follow are read; no digits there: NaN.
NaN == [nan |-> TRUE, n |-> 0]
Num(n) == [nan |-> FALSE, n |-> n]
parseInt(s) ==
    LET t      == TrimLeft(s)
        signed == t # <<>> /\ Head(t) \in {"-", "+"}
        body   == IF signed THEN Tail(t) ELSE t
        d      == DigitsPrefix(body)
        n      == ParseInt(SubSeq(body, 1, d))
    IN  IF d = 0 THEN NaN
        ELSE IF signed /\ Head(t) = "-" THEN Num(0 - n) ELSE Num(n)

\* arr.join(' '): null and undefined elements give the empty text
JoinValues(arr) ==
    join([i \in 1..Len(arr) |->
            IF arr[i].t \in {"undef", "null"} THEN <<>> ELSE JsString(arr[i])],
         <<" ">>)

DefaultServings == 4

parseServings(yield) ==
    IF Falsy(yield) THEN DefaultServings
    ELSE LET num == parseInt(JoinValues(toArray(yield)))
         IN  IF num.nan THEN DefaultServings ELSE num.n

Yields == {
    Undef, JNull, JNum(<<"0">>), JNum(<<"6">>), JStr(<<>>),
    JStr(<<"4"," ","s","e","r","v","i","n","g","s">>),
    JStr(<<"S","e","r","v","e","s"," ","6">>),
    JStr(<<" "," ","1","2"," ","c","o","o","k","i","e","s">>),
    JStr(<<"a"," ","d","o","z","e","n">>),
    JStr(<<"0">>),
    JStr(<<"-","2">>),
    JStr(<<"2",".","5">>),
    JArr(<<JStr(<<"8">>), JStr(<<"8"," ","s","e","r","v","i","n","g","s">>)>>),
    JArr(<<JStr(<<"M","a","k","e","s">>), JNum(<<"3">>)>>),
    JArr(<<JNull, JNum(<<"5">>)>>) }

ParseServings(yield) ==
    /\ fn = "none"
    /\ fn' = "parseServings"
    /\ arg' = yield
    /\ ret' = [servings |-> parseServings(yield)]
    /\ UNCHANGED <<dbvars, svars, pvars, mvars>>

\* --- search(query)
\* The label of each category key.
CATEGORIES ==
    [k \in {"soups", "pasta", "salads", "meat", "seafood", "vegetables", "casseroles", "mexican", "asian", "breakfast", "pizza", "desserts"} |->
        CASE k = "soups" -> <<"S","o","u","p","s"," ","&"," ","S","t","e","w","s">>
          [] k = "pasta" -> <<"P","a","s","t","a"," ","&"," ","N","o","o","d","l","e","s">>
          [] k = "salads" -> <<"S","a","l","a","d","s">>
          [] k = "meat" -> <<"M","e","a","t"," ","&"," ","P","o","u","l","t","r","y">>
          [] k = "seafood" -> <<"S","e","a","f","o","o","d">>
          [] k = "vegetables" -> <<"V","e","g","e","t","a","b","l","e","s"," ","&"," ","S","i","d","e","s">>
          [] k = "casseroles" -> <<"C","a","s","s","e","r","o","l","e","s"," ","&"," ","B","a","k","e","s">>
          [] k = "mexican" -> <<"M","e","x","i","c","a","n"," ","&"," ","T","e","x","-","M","e","x">>
          [] k = "asian" -> <<"A","s","i","a","n"," ","C","u","i","s","i","n","e">>
          [] k = "breakfast" -> <<"B","r","e","a","k","f","a","s","t"," ","&"," ","B","r","u","n","c","h">>
          [] k = "pizza" -> <<"P","i","z","z","a"," ","&"," ","F","l","a","t","b","r","e","a","d","s">>
          [] k = "desserts" -> <<"D","e","s","s","e","r","t","s"," ","&"," ","S","w","e","e","t","s">>]

\* A record as search reads it: name is a string; notes, tags and
\* ingredients are JS values (absent, a string, an array of strings);
\* category is a key.
SearchRec(i, n, no, tg, ing, cat) ==
    [id |-> i, name |-> n, notes |-> no, tags |-> tg, ingredients |-> ing,
     category |-> cat]

\* (v || '') and (v || [])
TextOr(v) == IF Falsy(v) THEN <<>> ELSE v.s
ListOr(v) == IF Falsy(v) THEN <<>> ELSE v.a
\* (CATEGORIES[key]?.label || '')
LabelOr(key) == IF key \in DOMAIN CATEGORIES THEN CATEGORIES[key] ELSE <<>>

\* Variant: the ingredients are not looked at.
searchWithoutIngredients(rs, query) ==
    LET q == trim(toLowerCase(query))
    IN  IF q = <<>> THEN rs
        ELSE SelectSeq(rs, LAMBDA r :
                \/ includes(toLowerCase(r.name), q)
                \/ includes(toLowerCase(TextOr(r.notes)), q)
                \/ \E t \in 1..Len(ListOr(r.tags)) :
                      includes(toLowerCase(ListOr(r.tags)[t].s), q)
                \/ includes(toLowerCase(LabelOr(r.category)), q))

\* search(query) over rs = getAll()
search(rs, query) ==
    LET q == trim(toLowerCase(query))
    IN  IF q = <<>> THEN rs
        ELSE SelectSeq(rs, LAMBDA r :
                \/ includes(toLowerCase(r.name), q)
                \/ includes(toLowerCase(TextOr(r.notes)), q)
                \/ \E t \in 1..Len(ListOr(r.tags)) :
                      includes(toLowerCase(ListOr(r.tags)[t].s), q)
                \/ \E i \in 1..Len(ListOr(r.ingredients)) :
                      includes(toLowerCase(ListOr(r.ingredients)[i].s), q)
                \/ includes(toLowerCase(LabelOr(r.category)), q))

SR1 == SearchRec(IdA, <<"B","e","e","f"," ","S","t","e","w">>, JStr(<<"S","u","n","d","a","y">>), JArr(<<JStr(<<"w","i","n","t","e","r">>)>>),
                 JArr(<<JStr(<<"b","e","e","f">>), JStr(<<"C","a","r","r","o","t">>)>>), "soups")
SR2 == SearchRec(IdB, <<"C","a","r","r","o","t"," ","C","a","k","e">>, Undef, Undef, Undef, "desserts")
SR3 == SearchRec(IdZ, <<"S","a","l","a","d">>, JStr(<<>>), JArr(<<JStr(<<"q","u","i","c","k">>), JStr(<<"B","e","e","f","y">>)>>),
                 JArr(<<JStr(<<"l","e","t","t","u","c","e">>)>>), "other")
Collections == { <<>>, <<SR1, SR2, SR3>>, <<SR3, SR1>>, <<SR2, SR1, SR2>> }
Queries == {
    <<>>, <<" "," ">>, <<"c","a","r","r","o","t">>, <<" ","C","A","R","R","O","T"," ">>, <<"b","e","e","f">>, <<"l","e","t","t","u","c","e">>, <<"s","w","e","e","t","s">>,
    <<"w","i","n","t","e","r">>, <<"s","u","n","d","a","y">>, <<"z","z","z">>, <<"s"," ","&"," ","s">> }

Search(rs, query) ==
    /\ fn = "none"
    /\ fn' = "search"
    /\ arg' = [recipes |-> rs, query |-> query]
    /\ ret' = [found |-> search(rs, query)]
    /\ UNCHANGED <<dbvars, svars, pvars, mvars>>

\* The call returns to its caller.  The functions are synchronous and the
\* program has one thread: the next call starts after the return.
Return ==
    /\ fn # "none"
    /\ fn' = "none"
    /\ arg' = <<>>
    /\ ret' = <<>>
    /\ UNCHANGED <<dbvars, svars, pvars, mvars>>

CallNext ==
    \/ \E ing \in LinkLists, st \in LinkLists, src \in LinkSources :
          IsLinkOut(LinkRecipe(ing, st, src))
    \/ \E slot \in Slots, site \in Sites : GetSettings(slot, site)
    \/ \E iso \in Durations : ParseDuration(iso)
    \/ \E rawCat \in RawCats, cuisine \in Cuisines, name \in Names,
          ingredients \in IngredientLists :
          GuessCategory(rawCat, cuisine, name, ingredients)
    \/ \E node \in SampleNodes : NormalizeJsonLD(node)
    \/ \E rs \in Collections, query \in Queries : Search(rs, query)
    \/ \E yield \in Yields : ParseServings(yield)
    \/ Return

CallSpec == ScrapeInit /\ [][CallNext]_vars

\* ================================================================= claims
Ids(d) == {getAll(d)[i].id : i \in 1..Len(getAll(d))}

\* ---- C1 ----------------------------------------------------------------
\* C1: scrape(url) never raises; it returns a result with a boolean success
\* flag and a non-null name, whatever the relays return.
C1_ScrapeNeverRaises ==
    /\ spc # "threw"
    /\ spc = "done" => /\ ~sresult.threw
                       /\ sresult.v.ok \in BOOLEAN
                       /\ sresult.v.name \in Seq(STRING)

\* ---- C2 ----------------------------------------------------------------
\* C2: when the remote write of add/update/remove fails (PUT rejected,
\* transport error, credentials missing) the operation does not throw, it
\* returns an outcome with the sync flag false and an error detail, and the
\* collection and the snapshot still hold the mutation (for add: getById of
\* the new id returns the added record).
C2_SyncFailureKeepsLocal ==
    /\ (result.op \in {"add", "update", "remove"} /\ data.t = "doc")
          => result.status # "threw"
    /\ (pc = "idle" /\ result.status = "syncfail") =>
          /\ result.err \in {"status", "network", "credentials"}
          /\ data.t = "doc"
          /\ snapshot = Stringify(data)
          /\ result.op = "add" =>
                LET n == Len(data.recipes)
                IN  /\ n > 0
                    /\ data.recipes[n].id = result.id
                    /\ (\A j \in 1..(n - 1) : data.recipes[j].id # result.id)
                          => getById(data, result.id) = data.recipes[n]
          /\ result.op = "update" =>
                \E i \in 1..Len(data.recipes) :
                    /\ data.recipes[i].id = result.id
                    /\ data.recipes[i].lastModified = Today
          /\ result.op = "remove" => getById(data, result.id) = NullRec

\* An add whose PUT was rejected has returned.
C2_Witness ==
    /\ pc = "idle"
    /\ result.op = "add"
    /\ result.status = "syncfail"
    /\ result.err = "status"
    /\ getById(data, result.id) # NullRec

\* ---- C3 ----------------------------------------------------------------
\* The client's collection: this._data while the page runs, the snapshot
\* while the page is loading.
LocalIds ==
    IF pc \in {"idle", "sync"} THEN Ids(data) ELSE Ids(Parse(snapshot))

\* C3 (as claimed): a change applied locally whose remote write failed is
\* still in the client's collection after any later operations of the
\* client, a later initialize() with the remote store reachable included,
\* until the client itself undoes it.
C3_LocalChangeNeverLost ==
    \A id \in unsynced : id \in LocalIds

\* C3 (amended): such a change leaves the client's collection only when an
\* initialize() adopts the remote document (or the client undoes it).
C3_LostOnlyByRemoteAdoption ==
    [][\A id \in unsynced \cap unsynced' :
          (id \in LocalIds /\ id \notin LocalIds')
             => /\ pc = "init_remote"
                /\ pc' = "idle"
                /\ ParseOk(remote)
                /\ data' = Parse(remote)]_vars

\* After a failed remote write the page was reloaded, initialize() did not
\* adopt a remote document, and the change is there.
C3_Witness ==
    /\ pc = "idle"
    /\ result.op = "init"
    /\ unsynced # {}
    /\ unsynced \subseteq Ids(data)
    /\ ~ParseOk(content)

\* ---- C4 ----------------------------------------------------------------
\* C4 (as claimed): initialize() adopts the remote document whenever the
\* remote read succeeds and parses (collection and snapshot equal to it),
\* else the snapshot whenever it exists and parses, else the seed document,
\* which is persisted as the new snapshot.
C4_InitSourceOrder ==
    (pc = "idle" /\ result.op = "init") =>
        IF ParseOk(content)
        THEN data = Parse(content) /\ snapshot = content
        ELSE IF ParseOk(raw)
        THEN data = Parse(raw)
        ELSE /\ ParseOk(json)
             /\ data = Doc(RecipesOr(Parse(json)))
             /\ snapshot = Stringify(data)

\* C4 (amended): a stage is adopted when its text parses to a value other
\* than null; a seed that cannot be loaded yields an empty collection and
\* leaves the snapshot as it was.
C4_InitSourceOrderNonNull ==
    (pc = "idle" /\ result.op = "init") =>
        IF ParseOk(content) /\ Parse(content).t # "null"
        THEN data = Parse(content) /\ snapshot = content
        ELSE IF ParseOk(raw) /\ Parse(raw).t # "null"
        THEN data = Parse(raw) /\ snapshot = raw
        ELSE IF ParseOk(json) /\ Parse(json).t # "null"
        THEN /\ data = Doc(RecipesOr(Parse(json)))
             /\ snapshot = Stringify(data)
        ELSE /\ data = Doc(<<>>)
             /\ snapshot = raw

\* The remote file held JSON null and the snapshot was adopted instead.
C4_Witness ==
    /\ pc = "idle"
    /\ result.op = "init"
    /\ content = Stringify(NullDoc)
    /\ ParseOk(raw)
    /\ data = Parse(raw)
    /\ data.t = "doc"

\* ---- C5 ----------------------------------------------------------------
\* C5: after initialize() the store holds a usable collection for every
\* remote, snapshot and seed content: a following add, update, remove or
\* importJSON does not fail.
C5_UsableAfterInit ==
    result.status # "threw"

\* ---- C6 ----------------------------------------------------------------
Failures == {"status", "network", "timeout", "readerror", "nocontent", "short"}

\* C6: relays are tried one at a time in list order; attempt i+1 starts
\* only after attempt i ended without a usable payload; the first payload
\* longer than 500 ends the chain and is the page content; when all relays
\* are exhausted the page content is unavailable.
C6_RelaysSequential ==
    /\ contacted = [i \in 1..Len(contacted) |-> i]
    /\ Len(contacted) <= NumRelays
    /\ Len(contacted) - Len(ended) \in {0, 1}
    /\ spc \in {"waiting", "reading"} <=> Len(contacted) = Len(ended) + 1
    /\ spc \in {"waiting", "reading"} => relay = Len(contacted)
    /\ \A i \in 1..Len(ended) :
          IF i < Len(contacted) THEN ended[i] \in Failures
          ELSE ended[i] \in Failures \cup {"good"}
    /\ spc \in {"extract", "done", "threw"} =>
          IF html = NoHtml
          THEN /\ Len(contacted) = NumRelays
               /\ \A i \in 1..NumRelays : ended[i] \in Failures
          ELSE /\ html.len > 500
               /\ ended[Len(ended)] = "good"

\* The third relay delivered the page after a timeout and a short payload.
C6_Witness ==
    /\ spc = "extract"
    /\ ended = <<"timeout", "short", "good">>
    /\ contacted = <<1, 2, 3>>
    /\ html # NoHtml

\* ---- C7 ----------------------------------------------------------------
\* C7: the timeout of a relay attempt covers the whole attempt, waiting for
\* the response and reading its body, so an attempt that never finishes is
\* abandoned and scrape(url) returns.
C7_TimeoutCoversAttempt ==
    spc \in {"waiting", "reading"} => timer

\* ---- C8 ----------------------------------------------------------------
UniqueIds(rs) == \A i, j \in 1..Len(rs) : i # j => rs[i].id # rs[j].id

\* C8: no two records of the collection share an id, and no operation
\* changes the id of a stored record.
C8_IdsUniqueImmutable ==
    /\ [](UniqueIds(getAll(data)))
    /\ [][(ops' = ops + 1 /\ result'.op \in {"update", "saveNote"}
              /\ data.t = "doc")
            => /\ Len(getAll(data')) = Len(getAll(data))
               /\ \A i \in 1..Len(getAll(data)) :
                     getAll(data')[i].id = getAll(data)[i].id]_vars

\* ---- C9 ----------------------------------------------------------------
\* C9: add of a recipe without id stores it, at the end of the collection,
\* with a generated non-empty id that no other record has and with a
\* dateAdded stamp; getById of that id returns the added record.
C9_AddGeneratesUniqueId ==
    (/\ pc = "idle"
     /\ result.op = "add"
     /\ result.status \in {"ok", "syncfail"}
     /\ result.id[1] = "r") =>
        LET n == Len(getAll(data))
            r == data.recipes[n]
        IN  /\ n > 0
            /\ r.id = result.id
            /\ r.id # NoId
            /\ r.dateAdded # ""
            /\ \A j \in 1..(n - 1) : data.recipes[j].id # r.id
            /\ getById(data, result.id) = r

\* ---- C10 ---------------------------------------------------------------
\* C10: remove(id) of a stored record makes getById(id) return not-found,
\* shrinks the collection by exactly one and leaves the other records and
\* their order as they were.
C10_RemoveExactlyOne ==
    [][(/\ ops' = ops + 1
        /\ result'.op = "remove"
        /\ data.t = "doc"
        /\ findIndex(data.recipes, result'.id) # 0)
          => /\ getById(data', result'.id) = NullRec
             /\ Len(getAll(data')) = Len(data.recipes) - 1
             /\ getAll(data') =
                   RemoveAt(data.recipes,
                            findIndex(data.recipes, result'.id))]_vars

\* ---- C11 ---------------------------------------------------------------
\* C11: in every reachable state importJSON(exportJSON()) leaves the
\* collection as it was (same records, same order) and reports success.
C11_RoundTrip ==
    [][ImportJSON(exportJSON)
          => /\ result'.status = "success"
             /\ data' = data]_vars

\* ---- C12 ---------------------------------------------------------------
\* The records of an import file: a bare sequence or the recipes of a
\* Collection Document.
IncomingOf(text) ==
    IF ParseOk(text) /\ Parse(text).t \in {"array", "doc"}
    THEN Parse(text).recipes ELSE <<>>

\* C12: importJSON replaces, in place, each existing record whose id is in
\* the import, leaves every other existing record where it was, appends
\* the incoming records with new ids, accepts a bare sequence and a
\* Collection Document, and on unparseable text changes nothing and
\* returns a failure.
C12_ImportMergesById ==
    [][\A text \in ImportTexts :
          ImportJSON(text) =>
             LET inc == IncomingOf(text)
                 old == getAll(data)
                 new == getAll(data')
                 InInc(id) == \E k \in 1..Len(inc) : inc[k].id = id
                 InOld(id) == \E i \in 1..Len(old) : old[i].id = id
                 LastInc(id) ==
                     inc[CHOOSE k \in 1..Len(inc) :
                            /\ inc[k].id = id
                            /\ \A m \in (k + 1)..Len(inc) : inc[m].id # id]
             IN  IF ~ParseOk(text)
                 THEN /\ result'.status = "failure"
                      /\ data' = data
                      /\ snapshot' = snapshot
                 ELSE Parse(text).t \in {"array", "doc"} =>
                      /\ result'.status = "success"
                      /\ snapshot' = Stringify(data')
                      /\ Len(new) >= Len(old)
                      /\ \A i \in 1..Len(old) :
                            new[i] = IF InInc(old[i].id)
                                     THEN LastInc(old[i].id) ELSE old[i]
                      /\ \A k \in 1..Len(inc) :
                            ~InOld(inc[k].id) =>
                               \E j \in (Len(old) + 1)..Len(new) :
                                  new[j] = LastInc(inc[k].id)
                      /\ Len(new) = Len(old) + Cardinality(
                            {inc[k].id : k \in {m \in 1..Len(inc) :
                                                  ~InOld(inc[m].id)}})]_vars

\* ---- C19 ---------------------------------------------------------------
\* C19: when add/update/remove starts its remote write, the collection
\* already holds the mutation, the snapshot equals the collection, and the
\* content sent is that state.
C19_LocalBeforeRemote ==
    [][Len(writes') > Len(writes) =>
          LET w == writes'[Len(writes')]
              n == Len(getAll(data'))
          IN  /\ w.phase = "get"
              /\ snapshot' = Stringify(data')
              /\ w.content = snapshot'
              /\ result'.op = "add" =>
                    /\ n = Len(getAll(data)) + 1
                    /\ data'.recipes[n].id = result'.id
              /\ result'.op = "update" =>
                    \E i \in 1..n :
                       /\ data'.recipes[i].id = result'.id
                       /\ data'.recipes[i].lastModified = Today
              /\ result'.op = "remove" =>
                    getById(data', result'.id) = NullRec]_vars

\* An update is waiting for its remote write, which carries the snapshot.
C19_Witness ==
    /\ pc = "sync"
    /\ result.op = "update"
    /\ Len(writes) > 0
    /\ writes[Len(writes)].awaited
    /\ writes[Len(writes)].content = snapshot
    /\ getById(data, result.id).lastModified = Today

\* ---- C20 ---------------------------------------------------------------
\* C20: a remote write GETs the version tag first and PUTs afterwards; the
\* PUT carries the tag read when the GET succeeded and no tag when it
\* failed; a PUT that is not accepted is reported as a sync failure with
\* its cause.
C20_GetThenPut ==
    [][/\ Len(writes') > Len(writes) =>
             /\ writes'[Len(writes')].phase = "get"
             /\ writes'[Len(writes')].sha = NoText
       /\ \A i \in 1..Len(writes) :
             /\ GhGetSha(i, TRUE) =>
                   /\ writes'[i].phase = "put"
                   /\ writes'[i].sha = remote
             /\ GhGetSha(i, FALSE) =>
                   /\ writes'[i].phase = "put"
                   /\ writes'[i].sha = NoText
       /\ remote' # remote =>
             \E i \in 1..Len(writes) :
                /\ writes[i].phase = "put"
                /\ writes[i].sha = remote
                /\ remote' = writes[i].content
       /\ \A i \in 1..Len(writes), outcome \in {"status", "network"} :
             (GhPut(i, outcome) /\ writes[i].awaited) =>
                /\ pc' = "idle"
                /\ result'.status = "syncfail"
                /\ result'.err = outcome
                /\ remote' = remote]_vars

\* A write has read the tag of the existing remote file and is about to
\* PUT with it.
C20_Witness ==
    /\ Truthy(remote)
    /\ \E i \in 1..Len(writes) :
          /\ writes[i].phase = "put"
          /\ writes[i].sha = remote

\* ---- C14 ---------------------------------------------------------------
EmptyOrMissing(v) == v \in {Undef, JNull, JStr(<<>>)}

\* C14: per field, a non-empty persisted value wins over the baked-in
\* default, the baked-in default wins over an empty or missing persisted
\* value, the hardcoded fallback is what remains when neither has the
\* field; an unparseable settings slot yields the baked-in/default values.
C14_SettingsMerge ==
    fn = "getSettings" =>
       \A f \in SettingsFields :
          LET stored == IF arg.slot.k = "obj" THEN arg.slot.o[f] ELSE Undef
              baked  == IF arg.site.defined THEN arg.site.o[f] ELSE Undef
          IN  /\ ~EmptyOrMissing(stored) => ret[f] = stored
              /\ (EmptyOrMissing(stored) /\ baked # Undef) => ret[f] = baked
              /\ (EmptyOrMissing(stored) /\ baked = Undef)
                    => ret[f] = DEFAULT_SETTINGS[f]
              /\ (ret[f] = DEFAULT_SETTINGS[f] /\ ~EmptyOrMissing(DEFAULT_SETTINGS[f]))
                    => \/ stored = ret[f]
                       \/ baked = ret[f]
                       \/ EmptyOrMissing(stored) /\ EmptyOrMissing(baked)

\* An empty persisted token and branch were read over a baked-in
\* configuration that has both: the baked-in values came out.
C14_Witness ==
    /\ fn = "getSettings"
    /\ arg.slot.k = "obj"
    /\ arg.slot.o.githubToken = JStr(<<>>)
    /\ arg.slot.o.githubBranch = JNull
    /\ arg.site.defined
    /\ ret.githubToken = JStr(sTok)
    /\ ret.githubBranch = JStr(sMain)
    /\ ret.githubRepo = JStr(sOwn)

\* ---- C18 ---------------------------------------------------------------
\* C18: a recipe is link-out exactly when it has no ingredient, no step
\* and a non-empty source; with any ingredient or step it is never
\* link-out.
C18_LinkOut ==
    fn = "isLinkOut" =>
       LET HasAny(x) == x.t = "arr" /\ x.a # <<>>
           HasSource == arg.source.t = "str" /\ arg.source.s # <<>>
       IN  /\ ret.linkOut \in BOOLEAN
           /\ ret.linkOut <=> (/\ ~HasAny(arg.ingredients)
                               /\ ~HasAny(arg.steps)
                               /\ HasSource)
           /\ (HasAny(arg.ingredients) \/ HasAny(arg.steps)) => ~ret.linkOut

\* A recipe with a source, an absent ingredient list and an empty step
\* list was found to be link-out.
C18_Witness ==
    /\ fn = "isLinkOut"
    /\ arg = LinkRecipe(Undef, JArr(<<>>), JStr(sHttp))
    /\ ret.linkOut

\* ---- C16 ---------------------------------------------------------------
AllDigits(x) == x # <<>> /\ \A i \in 1..Len(x) : IsDigit(x[i])
\* x is digits followed by the unit letter
IsPart(x, unit) ==
    /\ Len(x) >= 2
    /\ x[Len(x)] = unit
    /\ AllDigits(SubSeq(x, 1, Len(x) - 1))
PartValue(x) == IF x = <<>> THEN 0 ELSE ParseInt(SubSeq(x, 1, Len(x) - 1))
\* The text for h hours and m minutes, none for 0 and 0.
DurationText(h, m) ==
    IF h > 0 /\ m > 0 THEN NatStr(h) \o <<"h", " ">> \o NatStr(m) \o sMin
    ELSE IF h > 0 THEN NatStr(h) \o sHr
    ELSE NatStr(m) \o sMin
\* s from position p on reads "PT", an hours part up to a, a minutes part
\* up to b (each part may be missing, but is not skipped when present).
ReadsAt(s, p, a, b) ==
    LET hpart == SubSeq(s, p + 2, a)
        mpart == SubSeq(s, a + 1, b)
    IN  /\ p + 1 <= Len(s)
        /\ SubSeq(s, p, p + 1) = sPT
        /\ a >= p + 1 /\ b >= a
        /\ IF hpart = <<>>
           THEN \A a2 \in (p + 2)..Len(s) : ~IsPart(SubSeq(s, p + 2, a2), "H")
           ELSE IsPart(hpart, "H")
        /\ IF mpart = <<>>
           THEN \A b2 \in (a + 1)..Len(s) : ~IsPart(SubSeq(s, a + 1, b2), "M")
           ELSE IsPart(mpart, "M")

Has(text, alt) == \E i \in 1..Len(text) : MatchAt(text, i, alt)
KeywordsIn(text, r) ==
    {a \in 1..Len(rules[r].alts) : Has(text, rules[r].alts[a])}
CategoryKeys == {rules[r].cat : r \in 1..Len(rules)}
sTaco    == <<"t","a","c","o">>
sChicken == <<"c","h","i","c","k","e","n">>
\* The text the classifier looks at, of the call in arg.
ArgText ==
    toLowerCase(CategoryText(arg.rawCat, arg.cuisine, arg.name,
                             arg.ingredients))

\* C13 as stated: the classifier always returns a category; a text
\* containing "taco" is Mexican, a text whose only keyword is "chicken" is
\* Meat, a text with no keyword gets the default category.
C13_TacoIsMexican ==
    fn = "guessCategory" =>
        /\ ret.category \in CategoryKeys
        /\ includes(ArgText, sTaco) => ret.category = "mexican"
        /\ (/\ includes(ArgText, sChicken)
            /\ \A r \in 1..Len(rules) : \A a \in KeywordsIn(ArgText, r) :
                  rules[r].alts[a] = sChicken)
           => ret.category = "meat"
        /\ (\A r \in 1..Len(rules) : KeywordsIn(ArgText, r) = {})
           => ret.category = "meat"

\* C13, amended: the classifier always returns a category; a text
\* containing "taco" is Mexican when it holds no keyword of the two rules
\* tried before the Mexican one (soups, pasta), and belongs to the first of
\* these two that has a keyword in it otherwise; a text whose only keyword
\* is "chicken" is Meat; a text with no keyword gets the default category,
\* Meat.
C13_TacoAfterSoupsAndPasta ==
    fn = "guessCategory" =>
        /\ ret.category \in CategoryKeys
        /\ includes(ArgText, sTaco) =>
              ret.category =
                  IF KeywordsIn(ArgText, 1) # {} THEN "soups"
                  ELSE IF KeywordsIn(ArgText, 2) # {} THEN "pasta"
                  ELSE "mexican"
        /\ (/\ includes(ArgText, sChicken)
            /\ \A r \in 1..Len(rules) : \A a \in KeywordsIn(ArgText, r) :
                  rules[r].alts[a] = sChicken)
           => ret.category = "meat"
        /\ (\A r \in 1..Len(rules) : KeywordsIn(ArgText, r) = {})
           => ret.category = "meat"

\* A text with "taco" in upper and lower case and neither a soups nor a
\* pasta keyword was classified.
C13_Witness ==
    /\ fn = "guessCategory"
    /\ includes(ArgText, sTaco)
    /\ KeywordsIn(ArgText, 1) = {} /\ KeywordsIn(ArgText, 2) = {}
    /\ arg.name # toLowerCase(arg.name)
    /\ ret.category = "mexican"

\* The texts of the entries of a node's recipeIngredient, in source order.
SourceTexts(node) ==
    [i \in 1..Len(toArray(node.recipeIngredient))
        |-> str(toArray(node.recipeIngredient)[i])]
Kept(node) == {i \in 1..Len(SourceTexts(node)) : SourceTexts(node)[i] # <<>>}
\* out holds the non-blank source texts, each once, in source order.
InSourceOrder(out, node) ==
    /\ Len(out) = Cardinality(Kept(node))
    /\ \E f \in [1..Len(out) -> Kept(node)] :
          /\ \A j, k \in 1..Len(out) : j < k => f[j] < f[k]
          /\ \A k \in 1..Len(out) : out[k] = SourceTexts(node)[f[k]]

\* C15: normalizing a Recipe node that has at least one ingredient yields a
\* non-empty ingredients sequence holding the source's ingredients in the
\* source's order, none moved and none repeated.
C15_IngredientsInSourceOrder ==
    (fn = "normalizeJsonLD" /\ isRecipe(arg) /\ Kept(arg) # {}) =>
        /\ ~ret.threw
        /\ ret.v.ingredients # <<>>
        /\ InSourceOrder(ret.v.ingredients, arg)

\* The trimmed query q is a case-insensitive substring of the text s.
Within(q, s) == includes(toLowerCase(s), toLowerCase(trim(q)))
\* The record r matches the query q.
Hit(r, q) ==
    \/ Within(q, r.name)
    \/ Within(q, TextOr(r.notes))
    \/ \E t \in 1..Len(ListOr(r.tags)) : Within(q, ListOr(r.tags)[t].s)
    \/ \E i \in 1..Len(ListOr(r.ingredients)) :
          Within(q, ListOr(r.ingredients)[i].s)
    \/ Within(q, LabelOr(r.category))
\* The positions of the matching records of the collection.
Hits(rs, q) == {i \in 1..Len(rs) : Hit(rs[i], q)}

\* C17: search returns the matching records of the collection, each once
\* per position, in the collection's order, and nothing else: a record
\* matches when the trimmed query is a case-insensitive substring of its
\* name, its notes, one of its tags, one of its ingredients or its
\* category's label.  An empty or blank query returns the whole collection.
C17_SearchFindsMatches ==
    fn = "search" =>
        LET rs  == arg.recipes
            out == ret.found
        IN  /\ Len(out) = Cardinality(Hits(rs, arg.query))
            /\ \E f \in [1..Len(out) -> Hits(rs, arg.query)] :
                  /\ \A j, k \in 1..Len(out) : j < k => f[j] < f[k]
                  /\ \A k \in 1..Len(out) : out[k] = rs[f[k]]
            /\ trim(arg.query) = <<>> => out = rs

\* A search returned a record that matches by an ingredient alone and left
\* another record of the collection out.
C17_Witness ==
    /\ fn = "search"
    /\ Len(ret.found) < Len(arg.recipes)
    /\ \E k \in 1..Len(ret.found) :
          LET r == ret.found[k]
              q == arg.query
          IN  /\ ~Within(q, r.name) /\ ~Within(q, TextOr(r.notes))
              /\ ~Within(q, LabelOr(r.category))
              /\ \A t \in 1..Len(ListOr(r.tags)) :
                    ~Within(q, ListOr(r.tags)[t].s)
              /\ \E i \in 1..Len(ListOr(r.ingredients)) :
                    Within(q, ListOr(r.ingredients)[i].s)

UpdatedInPlace(id, u) ==
    LET idx == findIndex(data.recipes, id)
        old == data.recipes[idx]
        m   == data'.recipes[idx]
    IN  /\ data'.t = "doc"
        /\ Len(data'.recipes) = Len(data.recipes)
        /\ \A j \in 1..Len(data.recipes) :
              j # idx => data'.recipes[j] = data.recipes[j]
        /\ m.id    = IF "id"    \in u.fields THEN u.id    ELSE old.id
        /\ m.name  = IF "name"  \in u.fields THEN u.name  ELSE old.name
        /\ m.notes = IF "notes" \in u.fields THEN u.notes ELSE old.notes
        /\ m.dateAdded = old.dateAdded
        /\ m.lastModified = Today
\* update with an id that no record has: nothing changes, no remote write
\* starts, and the call returns null.
UnknownIsNoOp(id, u) ==
    (Update(id, u) /\ getById(data, id) = NullRec) =>
        /\ UNCHANGED <<data, snapshot, writes, remote, pc>>
        /\ data.t = "doc" => result' = Res("update", "null", id, "")

\* C25 as stated: update stamps lastModified and replaces fields shallowly
\* in place; saveNote leaves lastModified as it was; update with an unknown
\* id is a no-op returning null.
C25_NoteKeepsLastModified ==
    [][/\ \A id \in ArgIds, u \in UpdateInputs :
             /\ (Update(id, u) /\ getById(data, id) # NullRec) =>
                   UpdatedInPlace(id, u)
             /\ UnknownIsNoOp(id, u)
       /\ \A id \in ArgIds :
             (SaveNote(id, "n") /\ getById(data, id) # NullRec) =>
                getById(data', id).lastModified = getById(data, id).lastModified
      ]_vars

\* C25, amended: update stamps lastModified and replaces fields shallowly
\* in place; saveNote stamps lastModified with today's date as well and
\* changes nothing else but the notes; update with an unknown id is a
\* no-op returning null.
C25_NoteStampsLastModified ==
    [][/\ \A id \in ArgIds, u \in UpdateInputs :
             /\ (Update(id, u) /\ getById(data, id) # NullRec) =>
                   UpdatedInPlace(id, u)
             /\ UnknownIsNoOp(id, u)
       /\ \A id \in ArgIds :
             (SaveNote(id, "n") /\ getById(data, id) # NullRec) =>
                UpdatedInPlace(id, Upd({"notes"}, NoId, "", "n"))
      ]_vars

\* A note was saved on a record that had no lastModified: it has today's.
C25_Witness ==
    /\ result = Res("saveNote", "none", IdA, "")
    /\ getById(data, IdA).notes = "n"
    /\ getById(data, IdA).lastModified = Today
    /\ getById(data, IdA).dateAdded = "old"

\* ---- C24 ---------------------------------------------------------------
\* C24 as stated: whenever init() has returned and no store operation is
\* in progress, the snapshot slot holds the serialization of the document
\* in memory, whichever way init() went.
C24_SnapshotIsData ==
    pc = "idle" => snapshot = Stringify(data)

\* C24, amended: the same, except after an init() that found the seed
\* unavailable: then the document in memory is the empty collection, the
\* slot is as init() found it (empty, unparseable or "null"), and it stays
\* so until the first operation that persists.
SeedUnavailable ==
    /\ result = Res("init", "done", NoId, "")
    /\ ~Usable(raw)
    /\ ~(ParseOk(json) /\ Parse(json).t # "null")
C24_SnapshotIsDataButSeedFailure ==
    pc = "idle" =>
        IF snapshot = Stringify(data) THEN TRUE
        ELSE /\ data = Doc(<<>>)
             /\ ~Usable(snapshot)
             /\ \/ SeedUnavailable
                \/ result.op \in {"saveNote", "update", "import"}
                   /\ result.status \in {"none", "null", "failure"}

\* init() has returned after a failed seed load: an empty collection in
\* memory, nothing in the slot.
C24_Witness ==
    /\ pc = "idle"
    /\ SeedUnavailable
    /\ data = Doc(<<>>)
    /\ snapshot = NoText

\* ---- C23 ---------------------------------------------------------------
\* C23: when the remote writes of this client have all settled and the
\* awaited operation has reported success, the remote document is the
\* serialization of the collection in memory: the detached write of an
\* earlier saveNote has not put its older state over the newer one.
C23_NewestWriteWins ==
    (pc = "idle" /\ writes = <<>> /\ result.status = "ok") =>
        remote = Stringify(data)

\* ---- C26 ---------------------------------------------------------------
\* The nodes of the well-formed blocks of a page, in document order.
RECURSIVE DocNodes(_)
DocNodes(blocks) ==
    IF blocks = <<>> THEN <<>>
    ELSE (IF Head(blocks).t = "bad" THEN <<>> ELSE Head(blocks).nodes)
         \o DocNodes(Tail(blocks))
RecipeAt(pg) == {i \in 1..Len(DocNodes(pg.blocks)) : isRecipe(DocNodes(pg.blocks)[i])}
FirstRecipe(pg) ==
    DocNodes(pg.blocks)[CHOOSE i \in RecipeAt(pg) : \A j \in RecipeAt(pg) : i <= j]
\* What the heuristic stage and the skeleton give for the page and URL.
AfterStructured(pg, u) ==
    LET heur == heuristicExtract(pg, u)
    IN  IF heur.name # <<>> \/ heur.ingredients # <<>>
        THEN [heur EXCEPT !.ok = TRUE]
        ELSE SRes(FALSE, titleFromUrl(u), <<>>, <<>>, <<>>, u)

\* C26: with page content, the structured-markup stage takes the first
\* node, in document order over all well-formed blocks (arrays and graphs
\* flattened, malformed blocks skipped), whose type includes "recipe" in
\* any case; its normalized form is returned with success flag true
\* exactly when it has a name and ingredients or steps; in every other
\* case, and when there is no such node, the heuristic stage runs and the
\* result comes from it.
C26_FirstRecipeNode ==
    (spc \in {"done", "threw"} /\ html # NoHtml) =>
        /\ spc = "done"
        /\ IF RecipeAt(html.page) = {}
           THEN sresult.v = AfterStructured(html.page, url)
           ELSE LET norm == normalizeJsonLD(FirstRecipe(html.page), url).v
                IN  IF norm.name # <<>> /\
                       (norm.ingredients # <<>> \/ norm.steps # <<>>)
                    THEN sresult.v = [norm EXCEPT !.ok = TRUE]
                    ELSE sresult.v = AfterStructured(html.page, url)

\* ---- C27 ---------------------------------------------------------------
\* The structured-markup stage accepted a result; the heuristic stage ran
\* and accepted one.
StructuredAccepted ==
    /\ html # NoHtml
    /\ RecipeAt(html.page) # {}
    /\ LET norm == normalizeJsonLD(FirstRecipe(html.page), url)
       IN  /\ ~norm.threw
           /\ norm.v.name # <<>>
           /\ norm.v.ingredients # <<>> \/ norm.v.steps # <<>>
HeuristicAccepted ==
    /\ html # NoHtml
    /\ ~StructuredAccepted
    /\ spc = "done"
    /\ LET heur == heuristicExtract(html.page, url)
       IN  heur.name # <<>> \/ heur.ingredients # <<>>
\* The last non-empty segment of the URL's path; <<>> when there is none.
LastSegment(u) ==
    IF NonEmpty(u.path) = <<>> THEN <<>>
    ELSE NonEmpty(u.path)[Len(NonEmpty(u.path))]

\* C27: scrape returns with success flag false exactly when neither stage
\* accepted a result, as when all relays are exhausted; the result is then
\* the skeleton (name from the URL's last path segment, no ingredients,
\* steps or tags, source the URL); a heuristic result with a name or with
\* ingredients is returned with success flag true.
C27_FailureIsSkeleton ==
    spc \in {"done", "threw"} =>
        /\ (spc = "done" /\ ~sresult.v.ok)
              <=> ~(StructuredAccepted \/ HeuristicAccepted)
        /\ html = NoHtml => ~(StructuredAccepted \/ HeuristicAccepted)
        /\ (spc = "done" /\ ~sresult.v.ok) =>
              /\ sresult.v.ingredients = <<>>
              /\ sresult.v.steps = <<>>
              /\ sresult.v.tags = <<>>
              /\ sresult.v.source = url
              /\ sresult.v.name = titleFromUrl(url)
              /\ LastSegment(url) = <<"b","e","e","f","-","s","t","e","w",
                                      ".","h","t","m","l">>
                    => sresult.v.name = <<"B","e","e","f"," ","S","t","e","w">>
        /\ HeuristicAccepted =>
              sresult.v = [heuristicExtract(html.page, url) EXCEPT !.ok = TRUE]

\* ---- C28 ---------------------------------------------------------------
\* The text of a yield field: the elements of an array joined by blanks.
YieldText(yield) ==
    IF Falsy(yield) THEN <<>> ELSE JoinValues(toArray(yield))
\* The positions where an integer token (a maximal run of digits) begins.
TokenStarts(s) ==
    {i \in 1..Len(s) : IsDigit(s[i]) /\ (i = 1 \/ ~IsDigit(s[i - 1]))}
FirstToken(s) ==
    LET i == CHOOSE k \in TokenStarts(s) : \A j \in TokenStarts(s) : k <= j
    IN  ParseInt(SubSeq(s, i, i + DigitsPrefix(SubSeq(s, i, Len(s))) - 1))

\* C28: parsing a yield field returns the first integer token found in it,
\* and 4 when it holds no integer token; the value is a positive integer.
C28_FirstIntegerToken ==
    fn = "parseServings" =>
        /\ ret.servings =
              IF TokenStarts(YieldText(arg)) = {} THEN 4
              ELSE FirstToken(YieldText(arg))
        /\ ret.servings > 0

\* ---- C29 ---------------------------------------------------------------
\* C29: the re-initialization started by resetData completes in the seed
\* stage, and with a seed document delivered the collection in memory and
\* the snapshot are that document: what the client had added is gone.
C29_ResetLoadsSeed ==
    [][(result = Res("reset", "pending", NoId, "") /\ pc' = "idle") =>
          /\ pc = "init_seed"
          /\ (ParseOk(json') /\ Parse(json').t = "doc") =>
                /\ data' = Parse(json')
                /\ snapshot' = Stringify(Parse(json'))]_vars

\* ---- C21 ---------------------------------------------------------------
\* Both clients loaded the same document, each made one change, and both
\* writes returned success.
BothWrote ==
    /\ peer.same
    /\ peer.status = "ok"
    /\ ops = 1
    /\ pc = "idle"
    /\ writes = <<>>
    /\ result.op \in {"add", "update", "remove"}
    /\ result.status = "ok"

\* C21: when two clients that loaded the same document have each changed
\* it and written it with success, the remote document is the collection of
\* the client whose PUT was accepted last, without merge: the document the
\* second client loaded plus its recipe when that client was last, and else
\* the first client's collection, which does not have that recipe.
C21_LastPutWins ==
    BothWrote =>
        IF peer.last
        THEN /\ remote = Stringify(peer.data)
             /\ Parse(remote).recipes = Append(Parse(peer.base).recipes, RP)
        ELSE /\ remote = Stringify(data)
             /\ IdP \notin Ids(Parse(remote))

\* The first client added a recipe with success, then the second client's
\* PUT was accepted: the first client's recipe is not in the remote file.
C21_Witness ==
    /\ BothWrote
    /\ peer.last
    /\ result.op = "add"
    /\ data # peer.data

\* ---- C30 ---------------------------------------------------------------
\* C30: pendingRecipe and the form are never set by a fetch that is not the
\* latest fetch started in the modal as it is open now.
C30_OnlyLatestFetchApplied ==
    /\ ~applied.pending
    /\ ~applied.form

====
